---------------------------- MODULE Spec2Model ----------------------------
(***************************************************************************)
(* A model of boGO, the generator that compiles a SQL schema into a       *)
(* hexagonal-architecture Go service: the line-oriented schema parser,    *)
(* the identifier and type mapping, the placeholder substitution of the   *)
(* template engine, the orchestration of createHexagonalArchitecture and  *)
(* the Goose migration synthesizer.                                       *)
(*                                                                         *)
(* Go strings are modelled as TLA+ strings (sequences of characters):     *)
(* Len, SubSeq and \o are the only primitives used on them, and every     *)
(* strings.* function of the Go library the code calls is defined below   *)
(* from these.                                                             *)
(***************************************************************************)
EXTENDS Integers, Sequences, FiniteSets, TLC

VARIABLES
    pc,          \* position of the running operation
    moduleName,  \* os.Args[1]
    sqlLines,    \* the lines of the SQL schema file, as bufio.Scanner yields them
    tables,      \* []Table returned by parseSQLSchema
    colLine,     \* the line handed to parseColumnDefinition
    colResult,   \* its result: <<>> for nil, <<column>> otherwise
    ident,       \* an identifier (table or column name) handed to the naming code
    names,       \* what the generators derived from ident
    tpl,         \* the template text being rendered
    bindings,    \* the variables map of the render call
    pending,     \* keys of the map the range loop has not visited yet
    rendered,    \* the result variable of replaceTemplateVariables
    migVars,     \* the variables map built by generateGooseMigration
    fsDirs,      \* the directories of the output tree that exist
    fsFiles,     \* the files of the output tree: path -> [template, vars]
    rewrites,    \* paths that were written when they already existed
    toolsRun,    \* external tools invoked so far (in order)
    warnings,    \* warnings printed so far (in order)
    lintResult,  \* what runLintChecks returned: "none", "nil", "error"
    lintIssues,  \* the checks of runLintChecks that reported issues
    result       \* how createHexagonalArchitecture ended: "none" while it runs,
                 \* "ok", one of its errors, or "panic"

vars == <<pc, moduleName, sqlLines, tables, colLine, colResult, ident, names,
          tpl, bindings, pending, rendered, migVars, fsDirs, fsFiles, rewrites,
          toolsRun, warnings, lintResult, lintIssues, result>>

-----------------------------------------------------------------------------
(***************************************************************************)
(* Go's strings package, on TLA+ strings.                                  *)
(***************************************************************************)

lowerLetters == "abcdefghijklmnopqrstuvwxyz"
upperLetters == "ABCDEFGHIJKLMNOPQRSTUVWXYZ"
digitChars == "0123456789"

\* The position of character c in alphabet a, 0 when absent.
CharIndex(c, a) ==
    IF \E i \in 1..Len(a) : SubSeq(a, i, i) = c
    THEN CHOOSE i \in 1..Len(a) : SubSeq(a, i, i) = c
    ELSE 0

ToUpperChar(c) ==
    LET i == CharIndex(c, lowerLetters)
    IN IF i = 0 THEN c ELSE SubSeq(upperLetters, i, i)

ToLowerChar(c) ==
    LET i == CharIndex(c, upperLetters)
    IN IF i = 0 THEN c ELSE SubSeq(lowerLetters, i, i)

RECURSIVE ToUpper(_)
ToUpper(s) ==
    IF s = "" THEN ""
    ELSE ToUpperChar(SubSeq(s, 1, 1)) \o ToUpper(SubSeq(s, 2, Len(s)))

RECURSIVE ToLower(_)
ToLower(s) ==
    IF s = "" THEN ""
    ELSE ToLowerChar(SubSeq(s, 1, 1)) \o ToLower(SubSeq(s, 2, Len(s)))

IsSpace(c) == c \in {" ", "\t", "\n", "\r"}

IsUpperLetter(c) == CharIndex(c, upperLetters) # 0

\* \w of Go's regexp: [0-9A-Za-z_]
IsWordChar(c) ==
    \/ CharIndex(c, lowerLetters) # 0
    \/ CharIndex(c, upperLetters) # 0
    \/ CharIndex(c, digitChars) # 0
    \/ c = "_"

\* s[i-1:j] with both ends clamped to the string: "" when the range is empty.
Substr(s, i, j) ==
    IF i > Len(s) \/ j < i THEN "" ELSE SubSeq(s, i, IF j > Len(s) THEN Len(s) ELSE j)

HasPrefix(s, p) == Len(s) >= Len(p) /\ SubSeq(s, 1, Len(p)) = p

HasSuffix(s, p) == Len(s) >= Len(p) /\ SubSeq(s, Len(s) - Len(p) + 1, Len(s)) = p

TrimSuffix(s, p) == IF HasSuffix(s, p) THEN SubSeq(s, 1, Len(s) - Len(p)) ELSE s

\* Whether sub occurs in s at position i.
MatchAt(s, sub, i) ==
    /\ i >= 1
    /\ i + Len(sub) - 1 <= Len(s)
    /\ SubSeq(s, i, i + Len(sub) - 1) = sub

\* The first position >= from where sub occurs in s, 0 when there is none.
RECURSIVE IndexFrom(_, _, _)
IndexFrom(s, sub, from) ==
    IF from + Len(sub) - 1 > Len(s) THEN 0
    ELSE IF MatchAt(s, sub, from) THEN from
    ELSE IndexFrom(s, sub, from + 1)

Contains(s, sub) == IndexFrom(s, sub, 1) # 0

RECURSIVE TrimLeft(_)
TrimLeft(s) ==
    IF s # "" /\ IsSpace(SubSeq(s, 1, 1)) THEN TrimLeft(SubSeq(s, 2, Len(s))) ELSE s

RECURSIVE TrimRight(_)
TrimRight(s) ==
    IF s # "" /\ IsSpace(SubSeq(s, Len(s), Len(s)))
    THEN TrimRight(SubSeq(s, 1, Len(s) - 1))
    ELSE s

TrimSpace(s) == TrimRight(TrimLeft(s))

\* Character classes of the regular expressions the code uses.
InClass(c, cls) ==
    CASE cls = "space" -> IsSpace(c)                    \* \s
      [] cls = "nonspace" -> ~IsSpace(c)
      [] cls = "word" -> IsWordChar(c)                  \* \w
      [] cls = "upper" -> IsUpperLetter(c)              \* [A-Z]
      [] cls = "token" -> ~IsSpace(c) /\ c # ","        \* [^,\s]
      [] OTHER -> FALSE

\* The length of the longest run of characters of class cls in s from position i.
RECURSIVE RunLen(_, _, _)
RunLen(s, i, cls) ==
    IF i <= Len(s) /\ InClass(SubSeq(s, i, i), cls) THEN 1 + RunLen(s, i + 1, cls) ELSE 0

\* strings.Fields: the maximal runs of non-space characters, in order.
RECURSIVE Fields(_)
Fields(s) ==
    LET t == TrimLeft(s)
        n == RunLen(t, 1, "nonspace")
    IN IF t = "" THEN <<>>
       ELSE <<SubSeq(t, 1, n)>> \o Fields(SubSeq(t, n + 1, Len(t)))

\* strings.Split(s, sep) for a non-empty sep.
RECURSIVE Split(_, _)
Split(s, sep) ==
    LET i == IndexFrom(s, sep, 1)
    IN IF i = 0 THEN <<s>>
       ELSE <<SubSeq(s, 1, i - 1)>> \o Split(SubSeq(s, i + Len(sep), Len(s)), sep)

\* strings.Join
RECURSIVE Join(_, _)
Join(parts, sep) ==
    IF parts = <<>> THEN ""
    ELSE IF Len(parts) = 1 THEN parts[1]
    ELSE parts[1] \o sep \o Join(Tail(parts), sep)

\* strings.ReplaceAll(s, old, new) for a non-empty old: the non-overlapping
\* occurrences of old, found left to right, each replaced by new.
RECURSIVE ReplaceAll(_, _, _)
ReplaceAll(s, old, new) ==
    LET i == IndexFrom(s, old, 1)
    IN IF i = 0 THEN s
       ELSE SubSeq(s, 1, i - 1) \o new \o ReplaceAll(SubSeq(s, i + Len(old), Len(s)), old, new)

-----------------------------------------------------------------------------
(***************************************************************************)
(* The schema parser.                                                      *)
(***************************************************************************)

\* type Column struct
Column(name, type) ==
    [Name |-> name, Type |-> type, IsPrimaryKey |-> FALSE, IsNullable |-> TRUE,
     DefaultValue |-> "", GoType |-> "", GormTag |-> "", JSONTag |-> ""]

\* type Table struct
Table(name, columns) == [Name |-> name, Columns |-> columns]

constraintKeywords == <<"CONSTRAINT", "PRIMARY KEY", "FOREIGN KEY", "UNIQUE", "CHECK", "INDEX">>

\* The loop over constraintKeywords: whether the upper-cased line contains one.
IsConstraintLine(lineUpper) ==
    \E k \in 1..Len(constraintKeywords) : Contains(lineUpper, constraintKeywords[k])

\* defaultRegex `(?i)DEFAULT\s+([^,\s]+)` tried at position i: the captured
\* token, "" when the expression does not match there.
DefaultMatchAt(line, i) ==
    LET sp == RunLen(line, i + 7, "space")
        tk == RunLen(line, i + 7 + sp, "token")
    IN IF ToUpper(Substr(line, i, i + 6)) = "DEFAULT" /\ sp >= 1 /\ tk >= 1
       THEN Substr(line, i + 7 + sp, i + 7 + sp + tk - 1)
       ELSE ""

\* defaultRegex.FindStringSubmatch(line)[1]: the capture of the leftmost match,
\* "" when there is no match.
DefaultCapture(line) ==
    LET hits == {i \in 1..Len(line) : DefaultMatchAt(line, i) # ""}
    IN IF hits = {} THEN ""
       ELSE DefaultMatchAt(line, CHOOSE i \in hits : \A j \in hits : i <= j)

\* parseColumnDefinition: <<>> for nil, <<column>> otherwise.
parseColumnDefinition(rawLine) ==
    LET line == TrimSuffix(TrimSpace(rawLine), ",")
        lineUpper == ToUpper(line)
        parts == Fields(line)
        columnType ==
            IF Len(parts) > 2 /\ ToUpper(parts[2]) = "DOUBLE" /\ ToUpper(parts[3]) = "PRECISION"
            THEN "DOUBLE PRECISION"
            ELSE parts[2]
    IN IF IsConstraintLine(lineUpper) THEN <<>>
       ELSE IF Len(parts) < 2 THEN <<>>
       ELSE << [Column(parts[1], columnType) EXCEPT
                  !.IsPrimaryKey = Contains(lineUpper, "PRIMARY KEY"),
                  !.IsNullable = ~Contains(lineUpper, "NOT NULL"),
                  !.DefaultValue = DefaultCapture(line)] >>

\* A switch of generateGoFieldInfo without its default case.
GoTypeOf_NoDefault(baseType) ==
    CASE baseType \in {"INT", "INTEGER", "SERIAL", "BIGSERIAL", "BIGINT"} -> "int64"
      [] baseType \in {"VARCHAR", "TEXT", "CHAR"} -> "string"
      [] baseType \in {"JSONB", "JSON"} -> "[]string"
      [] baseType \in {"BOOLEAN", "BOOL"} -> "bool"
      [] baseType \in {"TIMESTAMP", "DATETIME", "DATE"} -> "time.Time"
      [] baseType \in {"DECIMAL", "NUMERIC", "FLOAT", "REAL", "DOUBLE"} -> "float64"
      [] baseType = "UUID" -> "string"
      [] OTHER -> ""

\* The switch of generateGoFieldInfo on the base type.
GoTypeOf(baseType) ==
    CASE baseType \in {"INT", "INTEGER", "SERIAL", "BIGSERIAL", "BIGINT"} -> "int64"
      [] baseType \in {"VARCHAR", "TEXT", "CHAR"} -> "string"
      [] baseType \in {"JSONB", "JSON"} -> "[]string"
      [] baseType \in {"BOOLEAN", "BOOL"} -> "bool"
      [] baseType \in {"TIMESTAMP", "DATETIME"} -> "time.Time"
      [] baseType = "DATE" -> "time.Time"
      [] baseType \in {"DECIMAL", "NUMERIC", "FLOAT", "REAL", "DOUBLE", "DOUBLE PRECISION"} -> "float64"
      [] baseType = "UUID" -> "string"
      [] OTHER -> "string"

\* generateGoFieldInfo: the column with GoType, GormTag and JSONTag set.
generateGoFieldInfo(column) ==
    LET sqlType == ToUpper(column.Type)
        baseType == SubSeq(sqlType, 1, RunLen(sqlType, 1, "upper"))
        gormParts ==
            <<"column:" \o ToLower(column.Name)>>
            \o (IF column.IsPrimaryKey THEN <<"primarykey">> ELSE <<>>)
            \o (IF ~column.IsNullable THEN <<"not null">> ELSE <<>>)
            \o (IF Contains(sqlType, "JSONB") THEN <<"type:jsonb">>
                ELSE IF Contains(sqlType, "JSON") THEN <<"type:json">>
                ELSE <<>>)
    IN [column EXCEPT
          !.GoType = GoTypeOf(baseType),
          !.GormTag = "gorm:\"" \o Join(gormParts, ";") \o "\"",
          !.JSONTag = "json:\"" \o column.Name \o ",omitempty\""]

\* createTableRegex `(?i)CREATE\s+TABLE\s+(\w+)\s*\(` tried at position i: the
\* captured table name, "" when the expression does not match there.
CreateTableMatchAt(line, i) ==
    LET s1 == RunLen(line, i + 6, "space")
        t == i + 6 + s1
        s2 == RunLen(line, t + 5, "space")
        n == t + 5 + s2
        w == RunLen(line, n, "word")
        s3 == RunLen(line, n + w, "space")
    IN IF /\ ToUpper(Substr(line, i, i + 5)) = "CREATE"
          /\ s1 >= 1
          /\ ToUpper(Substr(line, t, t + 4)) = "TABLE"
          /\ s2 >= 1
          /\ w >= 1
          /\ Substr(line, n + w + s3, n + w + s3) = "("
       THEN Substr(line, n, n + w - 1)
       ELSE ""

\* createTableRegex.FindStringSubmatch(line)[1] of the leftmost match, "" when
\* the line does not match.
CreateTableName(line) ==
    LET hits == {i \in 1..Len(line) : CreateTableMatchAt(line, i) # ""}
    IN IF hits = {} THEN ""
       ELSE CreateTableMatchAt(line, CHOOSE i \in hits : \A j \in hits : i <= j)

\* The state of the scanner loop of parseSQLSchema before any line is read.
ScanInit == [tables |-> <<>>, currentTable |-> <<>>, inTableDefinition |-> FALSE]

\* A scanner loop that appends the table at its closing line without
\* leaving the table definition.
ScanLine_StaysOpen(st, rawLine) ==
    LET line == TrimSpace(rawLine)
        tableName == CreateTableName(line)
        column == parseColumnDefinition(line)
    IN IF HasPrefix(line, "--") \/ HasPrefix(line, "/*") \/ line = "" THEN st
       ELSE IF tableName # "" THEN
           [st EXCEPT !.currentTable = <<Table(tableName, <<>>)>>,
                      !.inTableDefinition = TRUE]
       ELSE IF st.inTableDefinition /\ Contains(line, ");") THEN
           [st EXCEPT !.tables = @ \o st.currentTable]
       ELSE IF st.inTableDefinition /\ st.currentTable # <<>> THEN
           [st EXCEPT !.currentTable =
               <<[st.currentTable[1] EXCEPT !.Columns = @ \o column]>>]
       ELSE st

\* One iteration of the scanner loop: st is (tables, currentTable,
\* inTableDefinition), currentTable being <<>> for nil.
ScanLine(st, rawLine) ==
    LET line == TrimSpace(rawLine)
        tableName == CreateTableName(line)
        column == parseColumnDefinition(line)
    IN IF HasPrefix(line, "--") \/ HasPrefix(line, "/*") \/ line = "" THEN st
       ELSE IF tableName # "" THEN
           [st EXCEPT !.currentTable = <<Table(tableName, <<>>)>>,
                      !.inTableDefinition = TRUE]
       ELSE IF st.inTableDefinition /\ Contains(line, ");") THEN
           [tables |-> st.tables \o st.currentTable,
            currentTable |-> <<>>,
            inTableDefinition |-> FALSE]
       ELSE IF st.inTableDefinition /\ st.currentTable # <<>> THEN
           [st EXCEPT !.currentTable =
               <<[st.currentTable[1] EXCEPT !.Columns = @ \o column]>>]
       ELSE st

RECURSIVE ScanLines(_, _)
ScanLines(st, lines) ==
    IF lines = <<>> THEN st ELSE ScanLines(ScanLine(st, Head(lines)), Tail(lines))

\* parseSQLSchema on a readable file with these lines: the tables, each column
\* completed by generateGoFieldInfo.
parseSQLSchema(lines) ==
    LET parsed == ScanLines(ScanInit, lines).tables
    IN [i \in 1..Len(parsed) |->
          [parsed[i] EXCEPT !.Columns =
              [j \in 1..Len(parsed[i].Columns) |-> generateGoFieldInfo(parsed[i].Columns[j])]]]

-----------------------------------------------------------------------------
(***************************************************************************)
(* Identifier normalisation and the entity name each generator derives.   *)
(***************************************************************************)

\* A loop body of toCamelCase without the ID pattern.
CamelPart_NoID(part) ==
    IF Len(part) > 0
    THEN ToUpper(SubSeq(part, 1, 1)) \o SubSeq(part, 2, Len(part))
    ELSE part

\* The body of the loop of toCamelCase on one segment.
CamelPart(part) ==
    IF Len(part) > 0
    THEN IF part = "id" THEN "ID"
         ELSE ToUpper(SubSeq(part, 1, 1)) \o SubSeq(part, 2, Len(part))
    ELSE part

toCamelCase(s) ==
    LET parts == Split(ToLower(s), "_")
    IN Join([i \in 1..Len(parts) |-> CamelPart(parts[i])], "")

\* A singularization that strips a trailing "s" in either letter case.
StripTrailingS_AnyCase(structName) ==
    IF HasSuffix(ToLower(structName), "s") THEN SubSeq(structName, 1, Len(structName) - 1)
    ELSE structName

\* if strings.HasSuffix(structName, "s") { structName = structName[:len(structName)-1] }
StripTrailingS(structName) ==
    IF HasSuffix(structName, "s") THEN SubSeq(structName, 1, Len(structName) - 1)
    ELSE structName

\* structName of generateDomainModel
DomainStructName(tableName) == StripTrailingS(toCamelCase(tableName))

\* structName of generateDTO
DTOStructName(tableName) == StripTrailingS(toCamelCase(tableName))

\* structName of generateApplicationService
ServiceStructName(tableName) == StripTrailingS(toCamelCase(tableName))

\* structName of generateInteractorAdapter
AdapterStructName(tableName) == StripTrailingS(toCamelCase(tableName))

\* structName of generatePostgresRepository
RepoStructName(tableName) == StripTrailingS(toCamelCase(tableName))

\* structName of generateRestAPIMain and generateRestHandler
RestStructName(tableName) == StripTrailingS(toCamelCase(tableName))

\* structName of generateMainGo
MainStructName(tableName) == toCamelCase(TrimSuffix(tableName, "s"))

\* entityPlural of generateRestAPIMain: the lower-cased struct name plus "s";
\* the routes are registered under "/" + entityPlural.
RestEntityPlural(tableName) == ToLower(RestStructName(tableName)) \o "s"

\* entityPlural of generateMainGo: the lower-cased table name; the endpoints
\* are logged under "/" + entityPlural.
MainEntityPlural(tableName) == ToLower(tableName)

-----------------------------------------------------------------------------
(***************************************************************************)
(* The Meta Contract decisions of the generators, on one column name.     *)
(***************************************************************************)

\* generateDomainModel: the hasID loop (no embedded MetaField when it holds).
DomainHasID(colName) == ToLower(colName) = "id"

\* A skip that compares the column name as written, without lower-casing it.
DomainSkipsField_CaseSensitive(colName) ==
    colName \in {"created_at", "updated_at", "deleted_at", "is_deleted"}

\* generateDomainModel: "Skip meta fields if they're explicitly defined".
DomainSkipsField(colName) ==
    \/ ToLower(colName) = "created_at"
    \/ ToLower(colName) = "updated_at"
    \/ ToLower(colName) = "deleted_at"
    \/ ToLower(colName) = "is_deleted"

\* generateDomainModel: the column is one the generator handles as a Meta
\* Contract column (through hasID or through the skip).
DomainIsMeta(colName) == DomainHasID(colName) \/ DomainSkipsField(colName)

\* generateDTO: "Skip meta fields as they're handled differently in DTOs".
DTOIsMeta(colName) ==
    \/ ToLower(colName) = "id"
    \/ ToLower(colName) = "created_at"
    \/ ToLower(colName) = "updated_at"
    \/ ToLower(colName) = "deleted_at"
    \/ ToLower(colName) = "is_deleted"

\* generateCreateTable: the switch that sets hasID .. hasIsDeleted.
MigrationIsMeta(colName) ==
    LET lowerName == ToLower(colName)
    IN lowerName \in {"id", "created_at", "updated_at", "deleted_at", "is_deleted"}

-----------------------------------------------------------------------------
(***************************************************************************)
(* The artifact generators.  A generated artifact is the template it is   *)
(* rendered from together with the variables map handed to                *)
(* processTemplate; the template bodies are external input.               *)
(***************************************************************************)

\* The delimiter of a Go struct tag is the backquote, a character the TLA+
\* lexer admits in no string: the apostrophe stands for it in the model.
tagQuote == "'"

\* getImportStatement
getImportStatement(table) ==
    LET hasTimeFields ==
            \E j \in 1..Len(table.Columns) :
                /\ ~(\/ ToLower(table.Columns[j].Name) = "created_at"
                     \/ ToLower(table.Columns[j].Name) = "updated_at"
                     \/ ToLower(table.Columns[j].Name) = "deleted_at")
                /\ table.Columns[j].GoType = "time.Time"
    IN IF hasTimeFields THEN "import \"time\"" ELSE ""

\* getDTOImportStatement
getDTOImportStatement(table) ==
    LET hasTimeFields ==
            \E j \in 1..Len(table.Columns) :
                /\ ~DTOIsMeta(table.Columns[j].Name)
                /\ table.Columns[j].GoType = "time.Time"
    IN IF hasTimeFields THEN "\t\"time\"" ELSE ""

\* generateDomainModel: the variables of the domain-model template.
generateDomainModel(table) ==
    LET structName == DomainStructName(table.Name)
        hasID == \E j \in 1..Len(table.Columns) : DomainHasID(table.Columns[j].Name)
        fieldLine(col) ==
            IF DomainSkipsField(col.Name) THEN ""
            ELSE "\t" \o toCamelCase(col.Name) \o " " \o col.GoType
                 \o " " \o tagQuote \o col.GormTag \o " " \o col.JSONTag \o tagQuote \o "\n"
        fields ==
            (IF ~hasID THEN "\tMetaField\n" ELSE "")
            \o Join([j \in 1..Len(table.Columns) |-> fieldLine(table.Columns[j])], "")
    IN [import_statement |-> getImportStatement(table),
        struct_name |-> structName,
        entity_name |-> ToLower(structName),
        fields |-> fields,
        table_name |-> table.Name]

\* generateDTO: the variables of the dto template.
generateDTO(module, table) ==
    LET structName == DTOStructName(table.Name)
        kept(col) == ~DTOIsMeta(col.Name)
        fieldLine(col) ==
            IF ~kept(col) THEN ""
            ELSE "\t" \o toCamelCase(col.Name) \o " " \o col.GoType
                 \o " " \o tagQuote \o "json:\"" \o ToLower(col.Name) \o ",omitempty\"" \o tagQuote \o "\n"
        marshalLine(col) ==
            IF ~kept(col) THEN ""
            ELSE "\n\t\t" \o toCamelCase(col.Name) \o ": d." \o toCamelCase(col.Name) \o ","
        unmarshalLine(col) ==
            IF ~kept(col) THEN ""
            ELSE "\n\td." \o toCamelCase(col.Name) \o " = domainModel." \o toCamelCase(col.Name)
        cols == table.Columns
    IN [module_name |-> module,
        dto_struct_name |-> structName,
        entity_name |-> ToLower(structName),
        fields |-> "\tID int64 " \o tagQuote \o "json:\"id,omitempty\"" \o tagQuote \o "\n"
                   \o Join([j \in 1..Len(cols) |-> fieldLine(cols[j])], ""),
        plural_name |-> structName \o "s",
        struct_name |-> structName,
        import_statement |-> getDTOImportStatement(table),
        marshal_fields |-> Join([j \in 1..Len(cols) |-> marshalLine(cols[j])], ""),
        unmarshal_fields |-> Join([j \in 1..Len(cols) |-> unmarshalLine(cols[j])], "")]

\* The filter and sorting entries generateRestParameter writes for a column.
FilterEntry(col, reflectType) ==
    "\n\t\t{Omitempty: true, DBKey: \"" \o col.Name \o "\", Kind: " \o reflectType
    \o ", QueryKey: \"" \o col.Name \o "\"},"

SortingEntry(col, reflectType) ==
    "\n\t\t{DBKey: \"" \o col.Name \o "\", QueryKey: \"" \o col.Name \o "\", Kind: "
    \o reflectType \o "},"

ReflectType(goType) ==
    IF goType = "int64" THEN "reflect.Int64"
    ELSE IF goType = "float64" THEN "reflect.Float64"
    ELSE IF goType = "bool" THEN "reflect.Bool"
    ELSE "reflect.String"

\* A skip that compares the column name as written.
RestParameterSkips_CaseSensitive(colName) ==
    colName \in {"id", "created_at", "updated_at", "deleted_at", "is_deleted"}

\* generateRestParameter: the skip of the columns loop.
RestParameterSkips(colName) ==
    \/ ToLower(colName) = "id"
    \/ ToLower(colName) = "created_at"
    \/ ToLower(colName) = "updated_at"
    \/ ToLower(colName) = "deleted_at"
    \/ ToLower(colName) = "is_deleted"

\* generateRestParameter: the variables of the rest-parameter template for
\* one table.
generateRestParameter(table) ==
    LET structName == RestStructName(table.Name)
        cols == table.Columns
        filter(col) ==
            IF RestParameterSkips(col.Name) THEN "" ELSE FilterEntry(col, ReflectType(col.GoType))
        sorting(col) ==
            IF RestParameterSkips(col.Name) THEN "" ELSE SortingEntry(col, ReflectType(col.GoType))
    IN [entity_snake |-> ToLower(structName),
        filter_fields |->
            "\n\t\t{Omitempty: true, DBKey: \"id\", Kind: reflect.Int64, QueryKey: \"id\"},"
            \o Join([j \in 1..Len(cols) |-> filter(cols[j])], ""),
        sorting_fields |->
            "\n\t\t{DBKey: \"id\", QueryKey: \"id\", Kind: reflect.Int64},"
            \o Join([j \in 1..Len(cols) |-> sorting(cols[j])], "")]

\* generateApplicationService: the variables of the application-service template.
generateApplicationService(module, table) ==
    LET structName == ServiceStructName(table.Name)
    IN [module_name |-> module,
        service_name |-> structName \o "Domain",
        entity_name |-> ToLower(structName),
        struct_name |-> structName,
        repo_field_name |-> ToLower(structName) \o "Repo"]

\* generateInteractorAdapter: the variables of the interactor-adapter template.
generateInteractorAdapter(module, table) ==
    LET structName == AdapterStructName(table.Name)
    IN [module_name |-> module,
        adapter_name |-> structName \o "Adapter",
        service_name |-> "I" \o structName \o "Service",
        app_service_name |-> ToLower(structName \o "Domain"),
        app_service_type |-> structName \o "Domain",
        entity_name |-> ToLower(structName),
        dto_plural_param |-> ToLower(structName \o "s"),
        dto_plural |-> structName \o "s",
        dto_param |-> ToLower(structName),
        dto_name |-> structName]

\* generatePostgresRepository: the variables of the postgres-repository template.
generatePostgresRepository(module, table) ==
    LET structName == RepoStructName(table.Name)
    IN [module_name |-> module,
        repo_name |-> structName \o "Repo",
        entity_name |-> ToLower(structName),
        entity_name_plural |-> ToLower(structName) \o "s",
        struct_name |-> structName,
        entity_param |-> ToLower(structName)]

\* generateMainGo on a non-empty table list: the variables of the main-go template.
generateMainGo(module, tbls) ==
    LET structName(i) == MainStructName(tbls[i].Name)
        entityName(i) == ToLower(structName(i))
        entityPlural(i) == ToLower(tbls[i].Name)
        repoLine(i) ==
            "\t" \o entityName(i) \o "Repo := postgres.New" \o structName(i) \o "Repo(db)\n"
        appLine(i) ==
            "\t" \o entityName(i) \o "AppService := application.New" \o structName(i)
            \o "Domain(ctx, " \o entityName(i) \o "Repo)\n"
        adapterLine(i) ==
            "\t" \o entityName(i) \o "Adapter := interactor.New" \o structName(i)
            \o "Adapter(ctx, " \o entityName(i) \o "AppService)\n"
        paramPart(i) == (IF i > 1 THEN ", " ELSE "") \o entityName(i) \o "Adapter"
        endpointLines(i) ==
            "\n\tlog.Info(\"  GET/POST /" \o entityPlural(i) \o " - " \o structName(i)
            \o " management\")"
            \o "\n\tlog.Info(\"  GET/PUT/DELETE /" \o entityPlural(i) \o "/{id} - "
            \o structName(i) \o " operations\")"
        n == Len(tbls)
    IN [module_name |-> module,
        additional_imports |->
            "\n\t\"" \o module \o "/internal/application\""
            \o "\n\t\"" \o module \o "/internal/interactor\""
            \o "\n\t\"" \o module \o "/internal/interactor/rest\""
            \o "\n\t\"" \o module \o "/internal/repository/implementor/postgres\"",
        repository_initialization |->
            "\n\t// Initialize repositories\n" \o Join([i \in 1..n |-> repoLine(i)], ""),
        application_service_initialization |->
            "\n\t// Initialize application services\n" \o Join([i \in 1..n |-> appLine(i)], ""),
        adapter_initialization |->
            "\n\t// Initialize interactor adapters\n" \o Join([i \in 1..n |-> adapterLine(i)], ""),
        service_parameters |-> ", " \o Join([i \in 1..n |-> paramPart(i)], ""),
        endpoint_logging |-> Join([i \in 1..n |-> endpointLines(i)], "")]

-----------------------------------------------------------------------------
(***************************************************************************)
(* The Goose migration synthesizer.                                        *)
(***************************************************************************)

\* mapGoTypeToPGType
mapGoTypeToPGType(goType, columnName) ==
    LET lowerName == ToLower(columnName)
        has(sub) == Contains(lowerName, sub)
    IN IF lowerName = "id" THEN "BIGSERIAL"
       ELSE IF HasSuffix(lowerName, "_id") /\ goType \in {"int64", "uint", "int"} THEN "BIGINT"
       ELSE IF lowerName \in {"created_at", "updated_at", "deleted_at"} THEN "TIMESTAMPTZ"
       ELSE IF has("timestamp") \/ has("_ts") \/ lowerName = "key_time" THEN "BIGINT"
       ELSE IF lowerName = "state" /\ goType \in {"string", "[]byte"} THEN "JSONB"
       ELSE IF goType = "[]int" THEN "JSONB"
       ELSE CASE goType = "string" ->
                   IF \/ has("type")
                      \/ lowerName \in {"activity_flag", "awake_state", "light_state",
                                        "deep_state", "rem_state"}
                   THEN "INTEGER"
                   ELSE "TEXT"
              [] goType \in {"int", "int32"} -> "INTEGER"
              [] goType = "int64" -> "BIGINT"
              [] goType = "float32" -> "REAL"
              [] goType = "float64" -> "DOUBLE PRECISION"
              [] goType = "bool" -> "BOOLEAN"
              [] goType = "time.Time" -> "TIMESTAMPTZ"
              [] goType = "[]byte" -> "BYTEA"
              [] OTHER ->
                   IF \/ has("count") \/ has("battery") \/ has("mins")
                      \/ has("hr") \/ has("pp") \/ has("idx")
                   THEN "INTEGER"
                   ELSE IF \/ has("distance") \/ has("calories") \/ has("threshold")
                           \/ has("psv") \/ has("conv_") \/ has("pwm") \/ has("rr")
                           \/ has("psf") \/ has("lf") \/ has("hf") \/ has("rmssd")
                           \/ has("tatpim") \/ has("bmr") \/ has("sdhr")
                   THEN "DOUBLE PRECISION"
                   ELSE "TEXT"

\* generateColumnDefinition
generateColumnDefinition(col, tableName) ==
    LET pgType == IF col.Type # "" THEN col.Type ELSE mapGoTypeToPGType(col.GoType, col.Name)
    IN col.Name \o " " \o pgType
       \o (IF col.IsPrimaryKey THEN " PRIMARY KEY" ELSE "")
       \o (IF ~col.IsNullable /\ ~col.IsPrimaryKey THEN " NOT NULL" ELSE "")
       \o (IF col.DefaultValue # "" /\ ~col.IsPrimaryKey
           THEN " DEFAULT " \o col.DefaultValue ELSE "")

\* tableName of the migration generators: the table name, schema-qualified
\* when a schema is given.
QualifiedName(table, schema) ==
    IF schema # "" THEN schema \o "." \o table.Name ELSE table.Name

\* A generateCreateTable that writes the missing audit columns before the
\* columns of the table.
generateCreateTable_AuditFirst(table, schema) ==
    LET cols == table.Columns
        declares(name) == \E j \in 1..Len(cols) : ToLower(cols[j].Name) = name
        body ==
            "CREATE TABLE IF NOT EXISTS " \o QualifiedName(table, schema) \o " (\n"
            \o (IF ~declares("id") THEN "    id BIGSERIAL PRIMARY KEY,\n" ELSE "")
            \o (IF ~declares("created_at") THEN "    created_at TIMESTAMPTZ DEFAULT NOW(),\n" ELSE "")
            \o (IF ~declares("updated_at") THEN "    updated_at TIMESTAMPTZ DEFAULT NOW(),\n" ELSE "")
            \o (IF ~declares("deleted_at") THEN "    deleted_at TIMESTAMPTZ,\n" ELSE "")
            \o (IF ~declares("is_deleted") THEN "    is_deleted BOOLEAN DEFAULT FALSE,\n" ELSE "")
            \o Join([j \in 1..Len(cols) |->
                        "    " \o generateColumnDefinition(cols[j], table.Name) \o ",\n"], "")
    IN TrimSuffix(body, ",\n") \o "\n);"

\* generateCreateTable
generateCreateTable(table, schema) ==
    LET cols == table.Columns
        declares(name) == \E j \in 1..Len(cols) : ToLower(cols[j].Name) = name
        hasID == declares("id")
        hasCreatedAt == declares("created_at")
        hasUpdatedAt == declares("updated_at")
        hasDeletedAt == declares("deleted_at")
        hasIsDeleted == declares("is_deleted")
        body ==
            "CREATE TABLE IF NOT EXISTS " \o QualifiedName(table, schema) \o " (\n"
            \o (IF ~hasID THEN "    id BIGSERIAL PRIMARY KEY,\n" ELSE "")
            \o Join([j \in 1..Len(cols) |->
                        "    " \o generateColumnDefinition(cols[j], table.Name) \o ",\n"], "")
            \o (IF ~hasCreatedAt THEN "    created_at TIMESTAMPTZ DEFAULT NOW(),\n" ELSE "")
            \o (IF ~hasUpdatedAt THEN "    updated_at TIMESTAMPTZ DEFAULT NOW(),\n" ELSE "")
            \o (IF ~hasDeletedAt THEN "    deleted_at TIMESTAMPTZ,\n" ELSE "")
    IN (IF ~hasIsDeleted THEN body \o "    is_deleted BOOLEAN DEFAULT FALSE\n"
        ELSE TrimSuffix(body, ",\n") \o "\n")
       \o ");"

\* The index condition without the lower-casing of the column name.
IndexedColumn_CaseSensitive(col) ==
    \/ Contains(col.Name, "user_id")
    \/ (Contains(col.Name, "_id") /\ ~col.IsPrimaryKey)
    \/ col.Name = "timestamp"
    \/ col.Name = "key_time"
    \/ col.Name = "start_ts"
    \/ col.Name = "end_ts"

\* The condition under which generateIndexes and generateDropIndexes treat a
\* column as an index candidate.
IndexedColumn(col) ==
    LET lowerName == ToLower(col.Name)
    IN \/ Contains(lowerName, "user_id")
       \/ (Contains(lowerName, "_id") /\ ~col.IsPrimaryKey)
       \/ lowerName = "timestamp"
       \/ lowerName = "key_time"
       \/ lowerName = "start_ts"
       \/ lowerName = "end_ts"

\* generateIndexes
generateIndexes(table, schema) ==
    LET schemaPrefix == IF schema # "" THEN schema \o "." ELSE ""
        stmt(col) ==
            IF IndexedColumn(col)
            THEN "CREATE INDEX IF NOT EXISTS " \o schemaPrefix
                 \o "idx_" \o table.Name \o "_" \o col.Name
                 \o " ON " \o QualifiedName(table, schema) \o "(" \o col.Name \o ");\n"
            ELSE ""
    IN Join([j \in 1..Len(table.Columns) |-> stmt(table.Columns[j])], "")

\* A generateDropIndexes that builds the index name from the lower-cased
\* column name.
generateDropIndexes_LowerCase(table, schema) ==
    LET schemaPrefix == IF schema # "" THEN schema \o "." ELSE ""
        stmt(col) ==
            IF IndexedColumn(col)
            THEN "DROP INDEX IF EXISTS " \o schemaPrefix
                 \o "idx_" \o table.Name \o "_" \o ToLower(col.Name) \o ";\n"
            ELSE ""
    IN Join([j \in 1..Len(table.Columns) |-> stmt(table.Columns[j])], "")

\* generateDropIndexes
generateDropIndexes(table, schema) ==
    LET schemaPrefix == IF schema # "" THEN schema \o "." ELSE ""
        stmt(col) ==
            IF IndexedColumn(col)
            THEN "DROP INDEX IF EXISTS " \o schemaPrefix
                 \o "idx_" \o table.Name \o "_" \o col.Name \o ";\n"
            ELSE ""
    IN Join([j \in 1..Len(table.Columns) |-> stmt(table.Columns[j])], "")

\* The drop lines written in the order they were collected.
RECURSIVE ForwardDrops(_, _)
ForwardDrops(tableDropLines, i) ==
    IF i < 1 THEN ""
    ELSE ForwardDrops(tableDropLines, i - 1)
         \o (IF tableDropLines[i] # "" THEN tableDropLines[i] \o "\n" ELSE "")

\* The loop of generateGooseMigration that writes the drop lines backwards,
\* i counting down from len(tableDropLines)-1 to 0 (here from Len to 1).
RECURSIVE ReversedDrops(_, _)
ReversedDrops(tableDropLines, i) ==
    IF i < 1 THEN ""
    ELSE (IF tableDropLines[i] # "" THEN tableDropLines[i] \o "\n" ELSE "")
         \o ReversedDrops(tableDropLines, i - 1)

\* generateGooseMigration on a non-empty table list: the variables of the
\* goose-migration template.
GooseMigrationVars(tbls, schema) ==
    LET n == Len(tbls)
        tableCreations == Join([i \in 1..n |-> generateCreateTable(tbls[i], schema) \o "\n"], "")
        tableDrops ==
            Join([i \in 1..n |->
                    "DROP TABLE IF EXISTS " \o QualifiedName(tbls[i], schema) \o ";\n"], "")
        tableDropLines == Split(TrimSpace(tableDrops), "\n")
    IN [schema_creation |->
            IF schema # "" THEN "CREATE SCHEMA IF NOT EXISTS \"" \o schema \o "\";\n\n" ELSE "",
        table_creations |-> tableCreations,
        index_creations |-> Join([i \in 1..n |-> generateIndexes(tbls[i], schema)], ""),
        index_drops |-> Join([i \in 1..n |-> generateDropIndexes(tbls[i], schema)], ""),
        table_drops |-> ReversedDrops(tableDropLines, Len(tableDropLines)),
        schema_drops |->
            IF schema # "" THEN "DROP SCHEMA IF EXISTS \"" \o schema \o "\" CASCADE;\n" ELSE ""]

\* The schema generateAllFiles hands to generateGooseMigration.
SchemaOf(module) == IF module = "wearable-service" THEN "wearable" ELSE ""

-----------------------------------------------------------------------------
(***************************************************************************)
(* The template engine.                                                    *)
(***************************************************************************)

\* A substitution step that also blanks the placeholder <struct_name>.
ReplaceKey_BlankUnbound(res, key, value) ==
    ReplaceAll(ReplaceAll(res, "<" \o key \o ">", value), "<struct_name>", "")

\* The body of the range loop of replaceTemplateVariables for one key:
\* placeholder := "<" + key + ">"; result = strings.ReplaceAll(result, placeholder, value)
ReplaceKey(res, key, value) == ReplaceAll(res, "<" \o key \o ">", value)

\* replaceTemplateVariables when the range loop visits the keys in this order.
RECURSIVE ReplaceInOrder(_, _, _)
ReplaceInOrder(res, variables, order) ==
    IF order = <<>> THEN res
    ELSE ReplaceInOrder(ReplaceKey(res, Head(order), variables[Head(order)]),
                        variables, Tail(order))

\* The orders in which a range loop may visit the keys of a map.
KeyOrders(variables) ==
    LET keys == DOMAIN variables
    IN {o \in [1..Cardinality(keys) -> keys] : \A k \in keys : \E i \in DOMAIN o : o[i] = k}

-----------------------------------------------------------------------------
(***************************************************************************)
(* The output tree and the files each generator step writes.  A file is    *)
(* held as the template it is rendered from and the variables bound to it. *)
(***************************************************************************)

\* filepath.Join
PathJoin(parts) == Join(parts, "/")

\* The position of the last "/" of path, 0 when there is none.
RECURSIVE LastSlash(_, _)
LastSlash(path, i) ==
    IF i < 1 THEN 0 ELSE IF SubSeq(path, i, i) = "/" THEN i ELSE LastSlash(path, i - 1)

\* filepath.Dir
Dir(path) ==
    LET k == LastSlash(path, Len(path)) IN IF k = 0 THEN "." ELSE SubSeq(path, 1, k - 1)

\* os.MkdirAll(folder): the folder and every missing parent exist afterwards.
MkdirAll(dirs, folder) ==
    dirs \cup {SubSeq(folder, 1, k - 1) : k \in {i \in 2..Len(folder) : SubSeq(folder, i, i) = "/"}}
         \cup {folder}

\* The content of a generated file: processTemplate(template, vars).
FileContent(template, variables) == [template |-> template, vars |-> variables]

\* The variables of a template that takes none.
EmptyVars == [k \in {} |-> ""]

\* writeFile(filePath, content) succeeding, on fs = [dirs, files, rewrites].
writeFile(fs, filePath, content) ==
    [dirs |-> MkdirAll(fs.dirs, Dir(filePath)),
     files |-> [q \in DOMAIN fs.files \cup {filePath} |->
                   IF q = filePath THEN content ELSE fs.files[q]],
     rewrites |-> IF filePath \in DOMAIN fs.files
                  THEN fs.rewrites \cup {filePath} ELSE fs.rewrites]

\* writeFile(filePath, content) returning an error: os.MkdirAll failed, or
\* os.WriteFile failed after the directory was made.
writeFileFailures(fs, filePath) ==
    {fs, [fs EXCEPT !.dirs = MkdirAll(fs.dirs, Dir(filePath))]}

\* A loop of writeFile calls over files, a sequence of <<path, content>>.
RECURSIVE writeFiles(_, _)
writeFiles(fs, files) ==
    IF files = <<>> THEN fs
    ELSE writeFiles(writeFile(fs, Head(files)[1], Head(files)[2]), Tail(files))

\* The folders of createDirectoryStructure, in order.
folders(module) ==
    <<module,
      PathJoin(<<module, "cmd", module>>),
      PathJoin(<<module, "build">>),
      PathJoin(<<module, "internal", "application">>),
      PathJoin(<<module, "internal", "application", "dto">>),
      PathJoin(<<module, "internal", "domain", "model">>),
      PathJoin(<<module, "internal", "interactor">>),
      PathJoin(<<module, "internal", "interactor", "rest">>),
      PathJoin(<<module, "internal", "interactor", "grpc">>),
      PathJoin(<<module, "internal", "repository">>),
      PathJoin(<<module, "internal", "repository", "implementor", "postgres">>),
      PathJoin(<<module, "internal", "repository", "implementor", "cache">>),
      PathJoin(<<module, "pkg">>),
      PathJoin(<<module, "script">>)>>

\* The loop of createDirectoryStructure over the first k folders.
RECURSIVE MkdirFolders(_, _, _)
MkdirFolders(dirs, module, k) ==
    IF k = 0 THEN dirs ELSE MkdirAll(MkdirFolders(dirs, module, k - 1), folders(module)[k])

\* The files map of generateBaseFiles, as a sequence; the order of the map
\* range is not this order.
BaseFiles(module, tbls) ==
    LET mod == [module_name |-> module] IN
    << <<PathJoin(<<module, "go.mod">>), FileContent("go-mod", mod)>>,
       <<PathJoin(<<module, "cmd", module, "main.go">>),
         FileContent("main-go", generateMainGo(module, tbls))>>,
       <<PathJoin(<<module, "README.md">>), FileContent("readme", mod)>>,
       <<PathJoin(<<module, "internal", "config", "config.go">>), FileContent("config", mod)>>,
       <<PathJoin(<<module, "internal", "repository", "implementor", "postgres", "connection.go">>),
         FileContent("db-connection", EmptyVars)>>,
       <<PathJoin(<<module, "internal", "domain", "model", "meta.go">>),
         FileContent("meta-field", EmptyVars)>>,
       <<PathJoin(<<module, "Dockerfile">>), FileContent("dockerfile", mod)>>,
       <<PathJoin(<<module, "docker-compose.yml">>), FileContent("docker-compose", mod)>>,
       <<PathJoin(<<module, "script", "build.sh">>), FileContent("build-script", mod)>>,
       <<PathJoin(<<module, "script", "build-all.sh">>),
         FileContent("build-script-cross-platform", mod)>>,
       <<PathJoin(<<module, "Makefile">>), FileContent("makefile", mod)>> >>

\* generateDomainModels
DomainModelFiles(module, tbls) ==
    [i \in 1..Len(tbls) |->
        <<PathJoin(<<module, "internal", "domain", "model", ToLower(tbls[i].Name) \o ".go">>),
          FileContent("domain-model", generateDomainModel(tbls[i]))>>]

\* The per-table variables of generateUnifiedApplicationInterfaces and
\* generateUnifiedInteractorInterfaces.
InterfaceVars(table) ==
    LET structName == StripTrailingS(toCamelCase(table.Name))
    IN [entity_name |-> ToLower(structName), struct_name |-> structName]

\* generateUnifiedApplicationInterfacesFile
ApplicationInterfacesFiles(module, tbls) ==
    << <<PathJoin(<<module, "internal", "application", "adapter.go">>),
         FileContent("application-interfaces",
            [module_name |-> module,
             interfaces |-> [i \in 1..Len(tbls) |->
                 FileContent("application-interface-content", InterfaceVars(tbls[i]))]])>> >>

\* generateApplicationServices
ApplicationServiceFiles(module, tbls) ==
    [i \in 1..Len(tbls) |->
        <<PathJoin(<<module, "internal", "application",
                     ToLower(StripTrailingS(toCamelCase(tbls[i].Name))) \o "_service.go">>),
          FileContent("application-service", generateApplicationService(module, tbls[i]))>>]

\* generateDTOs
DTOFiles(module, tbls) ==
    [i \in 1..Len(tbls) |->
        <<PathJoin(<<module, "internal", "application", "dto",
                     ToLower(StripTrailingS(toCamelCase(tbls[i].Name))) \o ".go">>),
          FileContent("dto", generateDTO(module, tbls[i]))>>]

\* generateUnifiedInteractorInterfacesFile
InteractorInterfacesFiles(module, tbls) ==
    << <<PathJoin(<<module, "internal", "interactor", "adapter.go">>),
         FileContent("interactor-interfaces",
            [module_name |-> module,
             interfaces |-> [i \in 1..Len(tbls) |->
                 FileContent("interactor-interface-content", InterfaceVars(tbls[i]))]])>> >>

\* generateInteractorAdapters
InteractorAdapterFiles(module, tbls) ==
    [i \in 1..Len(tbls) |->
        <<PathJoin(<<module, "internal", "interactor",
                     ToLower(StripTrailingS(toCamelCase(tbls[i].Name))) \o "_adapter.go">>),
          FileContent("interactor-adapter", generateInteractorAdapter(module, tbls[i]))>>]

\* generateRepositoryImplementations
RepositoryFiles(module, tbls) ==
    [i \in 1..Len(tbls) |->
        <<PathJoin(<<module, "internal", "repository", "implementor", "postgres",
                     ToLower(tbls[i].Name) \o "_repo.go">>),
          FileContent("postgres-repository", generatePostgresRepository(module, tbls[i]))>>]

\* generateRestAPI: rest.go, rest_parameter.go, then one handler per table.
\* Of the REST texts the entity name and the collection path are kept.
RestFiles(module, tbls) ==
    LET structName(i) == RestStructName(tbls[i].Name)
        entity(i) == [struct_name |-> structName(i),
                      entity_name |-> ToLower(structName(i)),
                      entity_plural |-> ToLower(structName(i)) \o "s"]
    IN << <<PathJoin(<<module, "internal", "interactor", "rest", "rest.go">>),
            FileContent("rest-api-main",
               [module_name |-> module, routes |-> [i \in 1..Len(tbls) |-> entity(i)]])>>,
          <<PathJoin(<<module, "internal", "interactor", "rest", "rest_parameter.go">>),
            FileContent("rest-parameter",
               [parameters |-> [i \in 1..Len(tbls) |-> entity(i)]])>> >>
       \o [i \in 1..Len(tbls) |->
            <<PathJoin(<<module, "internal", "interactor", "rest",
                         ToLower(tbls[i].Name) \o "_handler.go">>),
              FileContent("rest-handler-header",
                 [module_name |-> module] @@ entity(i))>>]

\* time.Now().Format("20060102150405") of two runs.
TimestampInputs == {"20060102150405", "20060102150406"}

\* The migration file of generateGooseMigration.
MigrationFiles(module, tbls, timestamp) ==
    << <<PathJoin(<<module, "migrations",
                    timestamp \o "_create_" \o module \o "_tables.sql">>),
         FileContent("goose-migration", GooseMigrationVars(tbls, SchemaOf(module)))>> >>

\* A validation of the table list that rejects nothing.
NoTablesFound_Never(tbls) == FALSE

\* if len(tables) == 0 of createHexagonalArchitecture
NoTablesFound(tbls) == Len(tbls) = 0

-----------------------------------------------------------------------------
(***************************************************************************)
(* Bounds and input domains.                                               *)
(***************************************************************************)

MaxAttrs == 2      \* attribute clauses after the type of a generated column line
MaxNameLen == 3    \* length of the generated identifiers
MaxSegs == 2       \* segments of a generated template text
MaxTables == 2     \* table blocks of a generated schema file

\* All sequences over set S of length at most n.
SeqsUpTo(S, n) == UNION {[1..k -> S] : k \in 0..n}

\* All strings of length exactly n over the characters in chars.
RECURSIVE StringsOfLen(_, _)
StringsOfLen(chars, n) ==
    IF n = 0 THEN {""}
    ELSE {c \o r : c \in chars, r \in StringsOfLen(chars, n - 1)}

\* All upper/lower-case permutations of s.
RECURSIVE CasePerms(_)
CasePerms(s) ==
    IF s = "" THEN {""}
    ELSE {c \o r : c \in {ToLowerChar(SubSeq(s, 1, 1)), ToUpperChar(SubSeq(s, 1, 1))},
                   r \in CasePerms(SubSeq(s, 2, Len(s)))}

\* The fixed Meta Contract column names.
MetaContractNames == {"id", "created_at", "updated_at", "deleted_at", "is_deleted"}

MetaNamePerms == UNION {CasePerms(n) : n \in MetaContractNames}

IdentChars == {"a", "s", "S", "_", "d", "i"}

IdentInputs ==
    UNION {StringsOfLen(IdentChars, n) : n \in 1..MaxNameLen}
    \cup MetaNamePerms
    \cup {"users", "USERS", "user_ids", "accounts", "status", "class", "created", "idx",
          "data", "user_profiles", "user_id", "USER_ID", "Id_Card", "paid", "a__id"}

\* Template texts are concatenations of these segments; the keys of the
\* bindings and the values bound to them.
TemplateSegments == {"<fields>", "<table_name>", "<struct_name>", "type "}
TemplateKeys == {"fields", "table_name"}
TemplateValues == {"", "users", "<table_name>", "<fields>"}

TemplateInputs ==
    {Join(segs, "") : segs \in SeqsUpTo(TemplateSegments, MaxSegs)}

BindingInputs ==
    UNION {[keys -> TemplateValues] : keys \in SUBSET TemplateKeys}

\* Schema files are sequences of at most MaxTables table blocks: a CREATE
\* TABLE line, column lines, a closing line.
TableHeaderInputs == {"CREATE TABLE accounts (", "create table sessions("}

ColumnBlockInputs ==
    {<<>>,
     <<"    name VARCHAR(255) NOT NULL,", "    created_at TIMESTAMPTZ DEFAULT NOW()">>,
     <<"    account_id BIGINT NOT NULL,", "    user_id BIGINT">>,
     <<"    Account_ID BIGINT,", "    key_time TIMESTAMP">>,
     <<"    account_id BIGINT,", "    account_id BIGINT">>}

TableBlockInputs ==
    {<<h>> \o c \o <<");">> : h \in TableHeaderInputs, c \in ColumnBlockInputs}

RECURSIVE Flatten(_)
Flatten(blocks) == IF blocks = <<>> THEN <<>> ELSE Head(blocks) \o Flatten(Tail(blocks))

SchemaInputs == {Flatten(b) : b \in SeqsUpTo(TableBlockInputs, MaxTables)}

\* Single-table schema files for the migration: every selection of these
\* column lines, in this order or in the reverse order.  The last line carries
\* a comment after its comma.
MetaColumnLines ==
    <<"    id BIGINT NOT NULL,",
      "    name TEXT,",
      "    Created_At TIMESTAMP,",
      "    updated_at TIMESTAMPTZ DEFAULT NOW(),",
      "    user_id BIGINT,",
      "    deleted_at TIMESTAMPTZ,",
      "    IS_DELETED BOOLEAN DEFAULT FALSE,",
      "    note TEXT, -- free text">>

\* The lines of a sequence at the positions in picked, in order.
Selection(lines, picked) ==
    LET F[k \in 0..Len(lines)] ==
            IF k = 0 THEN <<>>
            ELSE IF k \in picked THEN Append(F[k - 1], lines[k]) ELSE F[k - 1]
    IN F[Len(lines)]

Reverse(seq) == [k \in 1..Len(seq) |-> seq[Len(seq) + 1 - k]]

MetaSchemaInputs ==
    UNION {{<<"CREATE TABLE events (">> \o cols \o <<");">>,
            <<"CREATE TABLE events (">> \o Reverse(cols) \o <<");">>} :
              cols \in {Selection(MetaColumnLines, picked) :
                          picked \in SUBSET (1..Len(MetaColumnLines))}}
    \cup {<<"CREATE TABLE events (", "    id BIGINT NOT NULL,", "    ID BIGINT,", ");">>,
          <<"CREATE TABLE events (", "    seen_at TIMESTAMP,", "    Created_At TIMESTAMP,", ");">>,
          <<"CREATE TABLE events (", "    id DATE,", "    name TEXT,", ");">>,
          <<"CREATE TABLE events (", "    name TEXT,", "    is_deleted TIMESTAMP", ");">>}

ModuleInputs == {"svc", "wearable-service"}

\* The schema files the whole pipeline is run on: an empty file, a file of
\* comments, a table block that is never closed, the users table, and the
\* accounts and sessions tables.
UsersSchema ==
    <<"CREATE TABLE users (",
      "    id BIGSERIAL PRIMARY KEY,",
      "    name VARCHAR(255) NOT NULL,",
      "    email VARCHAR(255) NOT NULL UNIQUE,",
      "    created_at TIMESTAMPTZ DEFAULT NOW()",
      ");">>

AccountsSessionsSchema ==
    <<"-- accounts and their sessions",
      "CREATE TABLE accounts (",
      "    name VARCHAR(255) NOT NULL",
      ");",
      "",
      "CREATE TABLE sessions (",
      "    account_id BIGINT NOT NULL,",
      "    token TEXT",
      ");">>

\* A table that declares its identity column without an inline constraint,
\* and one of the audit columns.
EventsSchema ==
    <<"CREATE TABLE events (",
      "    id BIGINT NOT NULL,",
      "    seen_at TIMESTAMP,",
      "    created_at TIMESTAMPTZ DEFAULT NOW()",
      ");">>

\* A table named like the base file of the audit fields.
MetaTableSchema ==
    <<"CREATE TABLE meta (",
      "    label TEXT",
      ");">>

\* Two tables whose names differ in the final s only.
UserUsersSchema ==
    <<"CREATE TABLE user (",
      "    name TEXT",
      ");",
      "CREATE TABLE users (",
      "    name TEXT",
      ");">>

PipelineSchemaInputs ==
    {<<>>,
     <<"-- no tables yet", "">>,
     <<"CREATE TABLE users (", "    name VARCHAR(255) NOT NULL">>,
     UsersSchema,
     AccountsSessionsSchema,
     EventsSchema,
     MetaTableSchema,
     UserUsersSchema}

\* The parser is also run on every sequence of at most MaxLines of these
\* lines: table headers, a column, a closing line that carries a column, a
\* closing line, and a comment that holds the closing text.
MaxLines == 4

ParserLineChoices ==
    {"CREATE TABLE accounts (", "create table sessions(", "    name TEXT,", "    id BIGINT);",
     ");", "-- );"}

ParserInputs == SeqsUpTo(ParserLineChoices, MaxLines) \cup PipelineSchemaInputs

ColNameInputs == {"id", "name", "Email"}
ColTypeInputs == {"BIGSERIAL", "TEXT", "VARCHAR(255)"}
ColAttrInputs == {"PRIMARY KEY", "primary key", "NOT NULL", "UNIQUE", "DEFAULT NOW()"}

\* Constraint clauses that stand alone on their line.
StandaloneLineInputs ==
    {"PRIMARY KEY (id)", "CONSTRAINT pk PRIMARY KEY (id),", "FOREIGN KEY (a) REFERENCES b(id)", "x"}

\* Source types of the date/time family, of the other families of the switch
\* of generateGoFieldInfo, and types the switch does not know.
DateTimeTypeInputs ==
    {"TIMESTAMP", "timestamp", "TIMESTAMP(6)", "TIMESTAMP WITH TIME ZONE", "TIMESTAMPTZ",
     "timestamptz", "TIMESTAMPTZ(6)", "DATETIME", "DATETIME(3)", "DATE", "date"}
OtherTypeInputs ==
    {"INT", "INTEGER", "SERIAL", "BIGINT", "CHAR(1)", "JSONB", "JSON", "BOOLEAN", "BOOL",
     "DECIMAL(10,2)", "NUMERIC", "FLOAT", "REAL", "DOUBLE PRECISION", "double precision", "UUID"}
UnknownTypeInputs ==
    {"GEOMETRY", "money", "BYTEA", "SMALLINT", "TIME", "INT4", "_int4", "(255)", "INTERVAL"}

\* Column lines with and without a DEFAULT clause, two of them with a
\* column name that ends in the word default.
DefaultLineInputs ==
    {"active BOOLEAN DEFAULT TRUE,", "active BOOLEAN NOT NULL default false",
     "label TEXT DEFAULT 'a b',", "ratio DOUBLE PRECISION DEFAULT 0,", "label TEXT DEFAULT",
     "default_label TEXT,", "is_default BOOLEAN,", "is_default BOOLEAN NOT NULL DEFAULT FALSE,"}

ColumnLineInputs ==
    {n \o " " \o t \o Join([k \in 1..Len(a) |-> " " \o a[k]], "") \o c :
        n \in ColNameInputs, t \in ColTypeInputs,
        a \in SeqsUpTo(ColAttrInputs, MaxAttrs), c \in {"", ","}}
    \cup {n \o " " \o t \o c :
            n \in {"seen_at"}, t \in DateTimeTypeInputs \cup OtherTypeInputs \cup UnknownTypeInputs,
            c \in {"", ",", " NOT NULL,"}}
    \cup DefaultLineInputs
    \cup StandaloneLineInputs

-----------------------------------------------------------------------------
(***************************************************************************)
(* Idle values of the variables an operation does not use.                 *)
(***************************************************************************)

NoVars == [none |-> ""]

PipelineIdle ==
    /\ moduleName = ""
    /\ sqlLines = <<>>
    /\ tables = <<>>
    /\ migVars = NoVars
    /\ fsDirs = {}
    /\ fsFiles = <<>>
    /\ rewrites = {}
    /\ toolsRun = <<>>
    /\ warnings = <<>>
    /\ lintResult = "none" /\ lintIssues = {}
    /\ result = "none"

ColumnIdle == colLine = "" /\ colResult = <<>>

NamesIdle == ident = "" /\ names = NoVars

TemplateIdle == tpl = "" /\ bindings = NoVars /\ pending = {} /\ rendered = ""

pipelineVars == <<moduleName, sqlLines, tables, migVars, fsDirs, fsFiles, rewrites,
                  toolsRun, warnings, lintResult, lintIssues, result>>
columnVars == <<colLine, colResult>>
namesVars == <<ident, names>>
templateVars == <<tpl, bindings, pending, rendered>>
outputVars == <<fsDirs, fsFiles, rewrites, toolsRun, warnings, lintResult, lintIssues, result>>

-----------------------------------------------------------------------------
(***************************************************************************)
(* createHexagonalArchitecture on one module name and one schema file.     *)
(* pc is the call the run is about to make.  A run ends with result "ok"   *)
(* (nil), an error that main reports before os.Exit(1), or "panic".        *)
(***************************************************************************)

ErrParse == "error: failed to parse SQL schema"
ErrNoTables == "error: No tables found in SQL schema"
ErrDirectories == "error: failed to create directory structure"
ErrGenerate == "error: failed to generate files"
ErrInitModule == "error: failed to initialize Go module"

Init ==
    /\ pc = "start"
    /\ moduleName \in ModuleInputs
    /\ sqlLines \in PipelineSchemaInputs
    /\ tables = <<>>
    /\ migVars = NoVars
    /\ fsDirs = {} /\ fsFiles = <<>> /\ rewrites = {}
    /\ toolsRun = <<>> /\ warnings = <<>> /\ lintResult = "none" /\ lintIssues = {} /\ result = "none"
    /\ ColumnIdle /\ NamesIdle /\ TemplateIdle

CurrentFS == [dirs |-> fsDirs, files |-> fsFiles, rewrites |-> rewrites]

\* The ways a generator step that writes files in this order can end: every
\* file written; writeFile failing on file k after the files before it; a
\* generator panicking on a template before file k is written.
StepOutcomes(fs, files) ==
    {[fs |-> writeFiles(fs, files), result |-> "none"]}
    \cup {[fs |-> f, result |-> ErrGenerate] :
            f \in UNION {writeFileFailures(writeFiles(fs, SubSeq(files, 1, k - 1)), files[k][1]) :
                            k \in 1..Len(files)}}
    \cup {[fs |-> writeFiles(fs, SubSeq(files, 1, k - 1)), result |-> "panic"] :
            k \in 1..Len(files)}

\* The ways generateBaseFiles can end: a generator of the map literal
\* panics before anything is written (generateMainGo does on an empty table
\* list); every file is written; writeFile fails on a file after any set of
\* the others was written, the range over the map having no fixed order.
BaseFilesOutcomes(fs, module, tbls) ==
    LET files == BaseFiles(module, tbls)
        pick(W) == SelectSeq(files, LAMBDA f : f[1] \in W)
        paths == {files[k][1] : k \in 1..Len(files)}
    IN {[fs |-> fs, result |-> "panic"]}
       \cup (IF Len(tbls) = 0 THEN {}
             ELSE {[fs |-> writeFiles(fs, files), result |-> "none"]}
                  \cup {[fs |-> f, result |-> ErrGenerate] :
                          f \in UNION {UNION {writeFileFailures(writeFiles(fs, pick(W)), failing) :
                                                  failing \in paths \ W} :
                                          W \in SUBSET paths}})

\* tables, err := parseSQLSchema(sqlSchemaFile)
ParseSchema ==
    /\ pc = "start"
    /\ \/ /\ tables' = parseSQLSchema(sqlLines)
          /\ pc' = "parsed"
          /\ UNCHANGED result
       \/ /\ result' = ErrParse                   \* os.Open or the scanner failed
          /\ pc' = "done"
          /\ UNCHANGED tables
    /\ UNCHANGED <<moduleName, sqlLines, migVars, fsDirs, fsFiles, rewrites, toolsRun, warnings,
                   lintResult, lintIssues, columnVars, namesVars, templateVars>>

\* if len(tables) == 0 { return fmt.Errorf("No tables found ...") }
ValidateTables ==
    /\ pc = "parsed"
    /\ IF NoTablesFound(tables)
       THEN result' = ErrNoTables /\ pc' = "done"
       ELSE pc' = "mkdirs" /\ UNCHANGED result
    /\ UNCHANGED <<moduleName, sqlLines, tables, migVars, fsDirs, fsFiles, rewrites, toolsRun,
                   warnings, lintResult, lintIssues, columnVars, namesVars, templateVars>>

\* err = createDirectoryStructure(moduleName): os.MkdirAll on the folders in
\* order, stopping at the first that fails.
CreateDirectoryStructure ==
    /\ pc = "mkdirs"
    /\ \E k \in 0..Len(folders(moduleName)) :
          /\ fsDirs' = MkdirFolders(fsDirs, moduleName, k)
          /\ IF k = Len(folders(moduleName))
             THEN pc' = "base" /\ UNCHANGED result
             ELSE pc' = "done" /\ result' = ErrDirectories
    /\ UNCHANGED <<moduleName, sqlLines, tables, migVars, fsFiles, rewrites, toolsRun, warnings,
                   lintResult, lintIssues, columnVars, namesVars, templateVars>>

\* A generateAllFiles that goes on to the next step whatever the step returned.
EndStep_IgnoreError(o, to) ==
    /\ fsDirs' = o.fs.dirs
    /\ fsFiles' = o.fs.files
    /\ rewrites' = o.fs.rewrites
    /\ result' = o.result
    /\ pc' = to
    /\ UNCHANGED <<moduleName, sqlLines, tables, toolsRun, warnings, lintResult, lintIssues,
                   columnVars, namesVars, templateVars>>

\* A step of generateAllFiles ending in outcome o and going on to step to.
EndStep(o, to) ==
    /\ fsDirs' = o.fs.dirs
    /\ fsFiles' = o.fs.files
    /\ rewrites' = o.fs.rewrites
    /\ result' = o.result
    /\ pc' = IF o.result = "none" THEN to ELSE "done"
    /\ UNCHANGED <<moduleName, sqlLines, tables, toolsRun, warnings, lintResult, lintIssues,
                   columnVars, namesVars, templateVars>>

GenerateBaseFiles ==
    /\ pc = "base"
    /\ \E o \in BaseFilesOutcomes(CurrentFS, moduleName, tables) : EndStep(o, "models")
    /\ UNCHANGED migVars

GenerateDomainModels ==
    /\ pc = "models"
    /\ \E o \in StepOutcomes(CurrentFS, DomainModelFiles(moduleName, tables)) : EndStep(o, "appif")
    /\ UNCHANGED migVars

GenerateUnifiedApplicationInterfacesFile ==
    /\ pc = "appif"
    /\ \E o \in StepOutcomes(CurrentFS, ApplicationInterfacesFiles(moduleName, tables)) :
          EndStep(o, "services")
    /\ UNCHANGED migVars

GenerateApplicationServices ==
    /\ pc = "services"
    /\ \E o \in StepOutcomes(CurrentFS, ApplicationServiceFiles(moduleName, tables)) :
          EndStep(o, "dtos")
    /\ UNCHANGED migVars

GenerateDTOs ==
    /\ pc = "dtos"
    /\ \E o \in StepOutcomes(CurrentFS, DTOFiles(moduleName, tables)) : EndStep(o, "intif")
    /\ UNCHANGED migVars

GenerateUnifiedInteractorInterfacesFile ==
    /\ pc = "intif"
    /\ \E o \in StepOutcomes(CurrentFS, InteractorInterfacesFiles(moduleName, tables)) :
          EndStep(o, "adapters")
    /\ UNCHANGED migVars

GenerateInteractorAdapters ==
    /\ pc = "adapters"
    /\ \E o \in StepOutcomes(CurrentFS, InteractorAdapterFiles(moduleName, tables)) :
          EndStep(o, "repos")
    /\ UNCHANGED migVars

GenerateRepositoryImplementations ==
    /\ pc = "repos"
    /\ \E o \in StepOutcomes(CurrentFS, RepositoryFiles(moduleName, tables)) : EndStep(o, "rest")
    /\ UNCHANGED migVars

GenerateRestAPI ==
    /\ pc = "rest"
    /\ \E o \in StepOutcomes(CurrentFS, RestFiles(moduleName, tables)) : EndStep(o, "migration")
    /\ UNCHANGED migVars

\* A generateGooseMigration that reverses the table slice in place to get
\* the drop order.
GenerateGooseMigration_ReversesTables ==
    /\ pc = "migration"
    /\ tables' = [k \in 1..Len(tables) |-> tables[Len(tables) + 1 - k]]
    /\ migVars' = GooseMigrationVars(tables, SchemaOf(moduleName))
    /\ \E timestamp \in TimestampInputs :
          \E o \in {x \in StepOutcomes(CurrentFS, MigrationFiles(moduleName, tables, timestamp)) :
                       x.result # "panic"}
                   \cup {[fs |-> CurrentFS, result |-> ErrGenerate]} :
             /\ fsDirs' = o.fs.dirs
             /\ fsFiles' = o.fs.files
             /\ rewrites' = o.fs.rewrites
             /\ result' = o.result
             /\ pc' = IF o.result = "none" THEN "format" ELSE "done"
    /\ UNCHANGED <<moduleName, sqlLines, toolsRun, warnings, lintResult, lintIssues,
                   columnVars, namesVars, templateVars>>

\* generateGooseMigration(moduleName, tables, schema): the variables are
\* built, then processTemplate or writeFile may return an error.
GenerateGooseMigration ==
    /\ pc = "migration"
    /\ migVars' = GooseMigrationVars(tables, SchemaOf(moduleName))
    /\ \E timestamp \in TimestampInputs :
          \E o \in {x \in StepOutcomes(CurrentFS, MigrationFiles(moduleName, tables, timestamp)) :
                       x.result # "panic"}
                   \cup {[fs |-> CurrentFS, result |-> ErrGenerate]} :
             EndStep(o, "format")

\* The ways runLintChecks can go: the tools it runs, in order, the checks
\* that reported issues (golint: suggestions), and whether it returns an
\* error ("error") or nil ("nil").
LintOutcomes ==
    {[tools |-> <<"go vet", "goimports -l">>
                \o (IF imports \in {"clean", "dirty"} THEN <<>> ELSE <<"gofmt -l">>)
                \o <<"golint">>
                \o (IF golint = "ran" THEN <<>>
                    ELSE IF golint = "install failed" THEN <<"go install golang.org/x/lint/golint@latest">>
                    ELSE <<"go install golang.org/x/lint/golint@latest", "golint">>),
      issues |-> (IF vet = "failed" THEN {"go vet"} ELSE {})
                 \cup (IF imports = "dirty" THEN {"goimports -l"} ELSE {})
                 \cup (IF imports = "gofmt dirty" THEN {"gofmt -l"} ELSE {})
                 \cup (IF golint \in {"ran", "installed and ran"} /\ suggestions
                       THEN {"golint"} ELSE {}),
      ret |-> LET hasErrors == \/ vet = "failed"
                               \/ imports \in {"dirty", "gofmt dirty"}
              IN IF golint = "install failed" THEN "nil"      \* return nil
                 ELSE IF hasErrors THEN "error" ELSE "nil"] :
        vet \in {"passed", "failed"},
        imports \in {"clean", "dirty", "gofmt clean", "gofmt dirty", "gofmt failed"},
        golint \in {"ran", "install failed", "installed and ran", "installed and failed"},
        suggestions \in BOOLEAN}

\* err = formatGeneratedFiles(moduleName): goimports -w, with gofmt -w as
\* the fallback; a failure of both is a warning only.
FormatGeneratedFiles ==
    /\ pc = "format"
    /\ \/ /\ toolsRun' = toolsRun \o <<"goimports -w">>
          /\ UNCHANGED warnings
       \/ /\ toolsRun' = toolsRun \o <<"goimports -w", "gofmt -w">>
          /\ UNCHANGED warnings
       \/ /\ toolsRun' = toolsRun \o <<"goimports -w", "gofmt -w">>
          /\ warnings' = warnings \o <<"Could not format files">>
    /\ pc' = "initmod"
    /\ UNCHANGED <<moduleName, sqlLines, tables, migVars, fsDirs, fsFiles, rewrites, lintResult, lintIssues,
                   result, columnVars, namesVars, templateVars>>

\* An initializeGoModule that returns the error of runLintChecks.
initializeGoModuleReturn_LintFatal(lintRet) ==
    IF lintRet = "error" THEN ErrInitModule ELSE "ok"

\* What createHexagonalArchitecture returns once initializeGoModule has run
\* its tools: initializeGoModule returns nil after each of them, whatever
\* runLintChecks returned (lintRet).
initializeGoModuleReturn(lintRet) == "ok"

\* err = initializeGoModule(moduleName): filepath.Abs, go mod tidy, go build,
\* runLintChecks.  Only a failure of filepath.Abs is returned as an error.
InitializeGoModule ==
    /\ pc = "initmod"
    /\ \/ /\ result' = ErrInitModule               \* filepath.Abs failed
          /\ UNCHANGED <<toolsRun, warnings, lintResult, lintIssues>>
       \/ /\ toolsRun' = toolsRun \o <<"go mod tidy">>
          /\ warnings' = warnings \o <<"go mod tidy failed">>
          /\ UNCHANGED <<lintResult, lintIssues>>
          /\ result' = initializeGoModuleReturn(lintResult')
       \/ /\ toolsRun' = toolsRun \o <<"go mod tidy", "go build">>
          /\ warnings' = warnings \o <<"build test failed">>
          /\ UNCHANGED <<lintResult, lintIssues>>
          /\ result' = initializeGoModuleReturn(lintResult')
       \/ \E lint \in LintOutcomes :
             /\ toolsRun' = toolsRun \o <<"go mod tidy", "go build">> \o lint.tools
             /\ lintResult' = lint.ret
             /\ lintIssues' = lint.issues
             /\ warnings' = IF lint.ret = "error"
                            THEN warnings \o <<"Lint warnings found (non-blocking)">>
                            ELSE warnings
             /\ result' = initializeGoModuleReturn(lintResult')
    /\ pc' = "done"
    /\ UNCHANGED <<moduleName, sqlLines, tables, migVars, fsDirs, fsFiles, rewrites,
                   columnVars, namesVars, templateVars>>

Next ==
    \/ ParseSchema
    \/ ValidateTables
    \/ CreateDirectoryStructure
    \/ GenerateBaseFiles
    \/ GenerateDomainModels
    \/ GenerateUnifiedApplicationInterfacesFile
    \/ GenerateApplicationServices
    \/ GenerateDTOs
    \/ GenerateUnifiedInteractorInterfacesFile
    \/ GenerateInteractorAdapters
    \/ GenerateRepositoryImplementations
    \/ GenerateRestAPI
    \/ GenerateGooseMigration
    \/ FormatGeneratedFiles
    \/ InitializeGoModule

Spec == Init /\ [][Next]_vars

-----------------------------------------------------------------------------
(***************************************************************************)
(* parseColumnDefinition and generateGoFieldInfo applied to one line.      *)
(***************************************************************************)

ColumnInit ==
    /\ pc = "col:start"
    /\ colLine \in ColumnLineInputs
    /\ colResult = <<>>
    /\ PipelineIdle /\ NamesIdle /\ TemplateIdle

\* column := parseColumnDefinition(line)
ParseColumnLine ==
    /\ pc = "col:start"
    /\ colResult' = parseColumnDefinition(colLine)
    /\ pc' = "col:parsed"
    /\ UNCHANGED <<colLine, pipelineVars, namesVars, templateVars>>

\* generateGoFieldInfo(&tables[i].Columns[j]) on the column, when there is one
FillGoFieldInfo ==
    /\ pc = "col:parsed"
    /\ colResult' = [k \in 1..Len(colResult) |-> generateGoFieldInfo(colResult[k])]
    /\ pc' = "col:done"
    /\ UNCHANGED <<colLine, pipelineVars, namesVars, templateVars>>

\* generateDomainModel and generateDTO on a table of the column: the fields
\* each of them emits.
EmitFields ==
    /\ pc = "col:done"
    /\ colResult' = [k \in 1..Len(colResult) |->
                        [column |-> colResult[k],
                         domain |-> generateDomainModel(Table("items", <<colResult[k]>>)).fields,
                         dto |-> generateDTO("svc", Table("items", <<colResult[k]>>)).fields]]
    /\ pc' = "col:emitted"
    /\ UNCHANGED <<colLine, pipelineVars, namesVars, templateVars>>

ColumnNext == ParseColumnLine \/ FillGoFieldInfo \/ EmitFields

SpecColumn == ColumnInit /\ [][ColumnNext]_vars

-----------------------------------------------------------------------------
(***************************************************************************)
(* The naming code applied to one identifier.                              *)
(***************************************************************************)

NamesInit ==
    /\ pc = "name:start"
    /\ ident \in IdentInputs
    /\ names = NoVars
    /\ PipelineIdle /\ ColumnIdle /\ TemplateIdle

\* Every generator derives its entity name from the table name ident.
DeriveEntityNames ==
    /\ pc = "name:start"
    /\ names' = [main |-> MainStructName(ident),
                 domain |-> DomainStructName(ident),
                 dto |-> DTOStructName(ident),
                 service |-> ServiceStructName(ident),
                 adapter |-> AdapterStructName(ident),
                 repo |-> RepoStructName(ident),
                 rest |-> RestStructName(ident)]
    /\ pc' = "name:entity"
    /\ UNCHANGED <<ident, pipelineVars, columnVars, templateVars>>

\* The singularization is applied to ident: the HasSuffix form of the
\* generators (strip) and the TrimSuffix form of generateMainGo (trim).
SingularizeOnce ==
    /\ pc = "name:start"
    /\ names' = [strip |-> StripTrailingS(ident), trim |-> TrimSuffix(ident, "s")]
    /\ pc' = "name:once"
    /\ UNCHANGED <<ident, pipelineVars, columnVars, templateVars>>

\* The singularization is applied to its own output.
SingularizeTwice ==
    /\ pc = "name:once"
    /\ names' = [first |-> names,
                 second |-> [strip |-> StripTrailingS(names.strip),
                             trim |-> TrimSuffix(names.trim, "s")]]
    /\ pc' = "name:twice"
    /\ UNCHANGED <<ident, pipelineVars, columnVars, templateVars>>

\* Every generator decides whether the column name ident is a Meta Contract column.
DecideMeta ==
    /\ pc = "name:start"
    /\ names' = [domain |-> DomainIsMeta(ident),
                 dto |-> DTOIsMeta(ident),
                 migration |-> MigrationIsMeta(ident)]
    /\ pc' = "name:meta"
    /\ UNCHANGED <<ident, pipelineVars, columnVars, templateVars>>

\* generateRestAPIMain registers the routes of the table ident and
\* generateMainGo logs its endpoints.
DeriveRoutePaths ==
    /\ pc = "name:start"
    /\ names' = [collection |-> "/" \o RestEntityPlural(ident),
                 item |-> "/" \o RestEntityPlural(ident) \o "/:id",
                 logged |-> "/" \o MainEntityPlural(ident)]
    /\ pc' = "name:routes"
    /\ UNCHANGED <<ident, pipelineVars, columnVars, templateVars>>

\* toCamelCase(ident)
ConvertCase ==
    /\ pc = "name:start"
    /\ names' = [camel |-> toCamelCase(ident)]
    /\ pc' = "name:camel"
    /\ UNCHANGED <<ident, pipelineVars, columnVars, templateVars>>

NamesNext ==
    \/ DeriveEntityNames
    \/ SingularizeOnce
    \/ SingularizeTwice
    \/ DecideMeta
    \/ DeriveRoutePaths
    \/ ConvertCase

SpecNames == NamesInit /\ [][NamesNext]_vars

-----------------------------------------------------------------------------
(***************************************************************************)
(* replaceTemplateVariables on one template and one variables map.  Go     *)
(* visits the keys of a map in an order it randomizes on purpose: the      *)
(* loop takes any key not visited yet.                                     *)
(***************************************************************************)

TemplateInit ==
    /\ pc = "tpl:loop"
    /\ tpl \in TemplateInputs
    /\ bindings \in BindingInputs
    /\ pending = DOMAIN bindings
    /\ rendered = tpl                      \* result := template
    /\ PipelineIdle /\ ColumnIdle /\ NamesIdle

\* One iteration of `for key, value := range variables`.
ReplaceNextKey ==
    /\ pc = "tpl:loop"
    /\ \E key \in pending :
          /\ rendered' = ReplaceKey(rendered, key, bindings[key])
          /\ pending' = pending \ {key}
    /\ UNCHANGED <<pc, tpl, bindings, pipelineVars, columnVars, namesVars>>

\* return result
ReturnRendered ==
    /\ pc = "tpl:loop"
    /\ pending = {}
    /\ pc' = "tpl:done"
    /\ UNCHANGED <<tpl, bindings, pending, rendered, pipelineVars, columnVars, namesVars>>

TemplateNext == ReplaceNextKey \/ ReturnRendered

SpecTemplate == TemplateInit /\ [][TemplateNext]_vars

-----------------------------------------------------------------------------
(***************************************************************************)
(* parseSQLSchema followed by the statement builders of                    *)
(* generateGooseMigration, on one schema file and one module name.         *)
(***************************************************************************)

MigrationInit ==
    /\ pc = "mig:start"
    /\ moduleName \in ModuleInputs
    /\ sqlLines \in SchemaInputs \cup MetaSchemaInputs
    /\ tables = <<>>
    /\ migVars = NoVars
    /\ fsDirs = {} /\ fsFiles = <<>> /\ rewrites = {}
    /\ toolsRun = <<>> /\ warnings = <<>> /\ lintResult = "none" /\ lintIssues = {} /\ result = "none"
    /\ ColumnIdle /\ NamesIdle /\ TemplateIdle

\* tables, err := parseSQLSchema(sqlSchemaFile)
MigrationParse ==
    /\ pc = "mig:start"
    /\ tables' = parseSQLSchema(sqlLines)
    /\ pc' = "mig:parsed"
    /\ UNCHANGED <<moduleName, sqlLines, migVars, outputVars, columnVars, namesVars, templateVars>>

\* if len(tables) == 0 { return fmt.Errorf(...) }
MigrationRejectEmpty ==
    /\ pc = "mig:parsed"
    /\ Len(tables) = 0
    /\ pc' = "mig:rejected"
    /\ UNCHANGED <<moduleName, sqlLines, tables, migVars, outputVars, columnVars, namesVars,
                   templateVars>>

\* vars := map[string]string{...} of generateGooseMigration
MigrationBuildVars ==
    /\ pc = "mig:parsed"
    /\ Len(tables) > 0
    /\ migVars' = GooseMigrationVars(tables, SchemaOf(moduleName))
    /\ pc' = "mig:done"
    /\ UNCHANGED <<moduleName, sqlLines, tables, outputVars, columnVars, namesVars, templateVars>>

\* generateDomainModel, generateDTO and generateRestParameter on each table
\* of the schema: the fields and the import binding of the domain model and
\* of the DTO, and the filter and sorting entries of the parameters.
MigrationEmitEntries ==
    /\ pc = "mig:parsed"
    /\ Len(tables) > 0
    /\ migVars' = [model_fields |-> [i \in 1..Len(tables) |->
                                        generateDomainModel(tables[i]).fields],
                   model_import |-> [i \in 1..Len(tables) |->
                                        generateDomainModel(tables[i]).import_statement],
                   dto_fields |-> [i \in 1..Len(tables) |->
                                      generateDTO(moduleName, tables[i]).fields],
                   dto_import |-> [i \in 1..Len(tables) |->
                                      generateDTO(moduleName, tables[i]).import_statement],
                   filter_fields |-> [i \in 1..Len(tables) |->
                                         generateRestParameter(tables[i]).filter_fields],
                   sorting_fields |-> [i \in 1..Len(tables) |->
                                          generateRestParameter(tables[i]).sorting_fields]]
    /\ pc' = "mig:entries"
    /\ UNCHANGED <<moduleName, sqlLines, tables, outputVars, columnVars, namesVars, templateVars>>

MigrationNext ==
    MigrationParse \/ MigrationRejectEmpty \/ MigrationBuildVars \/ MigrationEmitEntries

SpecMigration == MigrationInit /\ [][MigrationNext]_vars

-----------------------------------------------------------------------------
(***************************************************************************)
(* parseSQLSchema on the lines of one file.                                *)
(***************************************************************************)

ParserInit ==
    /\ pc = "parse:start"
    /\ sqlLines \in ParserInputs
    /\ moduleName = ""
    /\ tables = <<>>
    /\ migVars = NoVars
    /\ fsDirs = {} /\ fsFiles = <<>> /\ rewrites = {}
    /\ toolsRun = <<>> /\ warnings = <<>> /\ lintResult = "none" /\ lintIssues = {} /\ result = "none"
    /\ ColumnIdle /\ NamesIdle /\ TemplateIdle

\* tables, err := parseSQLSchema(sqlSchemaFile), the file being readable
ParseLines ==
    /\ pc = "parse:start"
    /\ tables' = parseSQLSchema(sqlLines)
    /\ pc' = "parse:done"
    /\ UNCHANGED <<moduleName, sqlLines, migVars, outputVars, columnVars, namesVars, templateVars>>

ParserNext == ParseLines

SpecParser == ParserInit /\ [][ParserNext]_vars

-----------------------------------------------------------------------------
(***************************************************************************)
(* Properties of the column parser.                                        *)
(***************************************************************************)

\* The line has a column name, a type and, in the remainder, the marker
\* PRIMARY KEY (any letter case), and no other constraint keyword.
HasInlinePrimaryKey(line) ==
    LET parts == Fields(TrimSuffix(TrimSpace(line), ","))
        upper == ToUpper(line)
    IN /\ Len(parts) >= 4
       /\ \E k \in 3..(Len(parts) - 1) :
              ToUpper(parts[k]) = "PRIMARY" /\ ToUpper(parts[k + 1]) = "KEY"
       /\ ToUpper(parts[1]) \notin {"CONSTRAINT", "PRIMARY", "FOREIGN", "UNIQUE", "CHECK", "INDEX"}
       /\ \A kw \in {"CONSTRAINT", "FOREIGN KEY", "UNIQUE", "CHECK", "INDEX"} :
              ~Contains(upper, kw)

\* C3: for every column line with a name, a type and an inline PRIMARY KEY
\* marker, parseColumnDefinition records a column for the line, named by the
\* line's first token, with the primary-key flag set.
C3_InlinePrimaryKeyRecorded ==
    (pc \in {"col:parsed", "col:done"} /\ HasInlinePrimaryKey(colLine))
        => /\ Len(colResult) = 1
           /\ colResult[1].Name = Fields(colLine)[1]
           /\ colResult[1].IsPrimaryKey

-----------------------------------------------------------------------------
(***************************************************************************)
(* Properties of the naming code.                                          *)
(***************************************************************************)

\* C4: the domain-model generator, the DTO generator and the migration
\* synthesizer reach the same decision on whether a column name is a Meta
\* Contract column, for every name of the Meta Contract set in every letter
\* case (and for the other names of the input domain).
C4_MetaDecisionsAgree ==
    pc = "name:meta" => (names.domain = names.dto /\ names.dto = names.migration)

\* A mixed-case permutation of a Meta Contract name on which all three decide yes.
C4_Witness ==
    /\ pc = "name:meta"
    /\ ident = "Is_Deleted"
    /\ names.domain /\ names.dto /\ names.migration

\* C5: the entity name generateMainGo uses for the constructors equals the
\* name the domain-model, DTO, service, adapter, repository and REST
\* generators derive for the same table.
C5_EntityNamesAgree ==
    pc = "name:entity" =>
        /\ names.main = names.domain
        /\ names.main = names.dto
        /\ names.main = names.service
        /\ names.main = names.adapter
        /\ names.main = names.repo
        /\ names.main = names.rest

\* C6 as stated: singularizing the output of the singularization changes
\* nothing, for every name.
C6_SingularizeIdempotent ==
    pc = "name:twice" => names.second = names.first

\* C6 amended: singularizing the output of the singularization changes
\* nothing for every name that does not end in "ss".
C6_SingularizeIdempotentUnlessDoubleS ==
    (pc = "name:twice" /\ ~HasSuffix(ident, "ss")) => names.second = names.first

\* A name ending in one "s" was singularized twice and the second
\* application left the first result alone.
C6_Witness ==
    /\ pc = "name:twice"
    /\ ident = "users"
    /\ names.first.strip = "user"
    /\ names.second.strip = "user"
    /\ names.second.trim = "user"

-----------------------------------------------------------------------------
(***************************************************************************)
(* Properties of the template engine.                                      *)
(***************************************************************************)

\* C7: the output of replaceTemplateVariables does not depend on the order in
\* which the variables map is iterated: whatever order a second run takes,
\* it renders the text this run rendered.
C7_RenderingIsDeterministic ==
    pc = "tpl:done" =>
        \A order \in KeyOrders(bindings) : ReplaceInOrder(tpl, bindings, order) = rendered

\* The substitution as a single linear pass over the template text: at each
\* position a placeholder of a bound key is replaced by its value, which is
\* not scanned again.
RECURSIVE SinglePass(_, _)
SinglePass(text, variables) ==
    LET here == {k \in DOMAIN variables : HasPrefix(text, "<" \o k \o ">")}
        key == CHOOSE k \in here : TRUE
    IN IF text = "" THEN ""
       ELSE IF here # {}
       THEN variables[key] \o SinglePass(SubSeq(text, Len(key) + 3, Len(text)), variables)
       ELSE SubSeq(text, 1, 1) \o SinglePass(SubSeq(text, 2, Len(text)), variables)

\* C10: replaceTemplateVariables replaces every occurrence of <key> of the
\* template by the bound value and never re-evaluates inserted text: a value
\* that contains the placeholder of another bound key appears verbatim.
C10_InsertedTextIsNotReevaluated ==
    pc = "tpl:done" => rendered = SinglePass(tpl, bindings)

-----------------------------------------------------------------------------
(***************************************************************************)
(* Properties of the migration synthesizer.                                *)
(***************************************************************************)

\* The non-empty lines of a migration binding.
StatementLines(text) == SelectSeq(Split(text, "\n"), LAMBDA l : l # "")

\* The table names of the CREATE TABLE statements of text, in order.
CreatedTables(text) ==
    LET heads == SelectSeq(StatementLines(text),
                           LAMBDA l : HasPrefix(l, "CREATE TABLE IF NOT EXISTS "))
    IN [k \in 1..Len(heads) |-> Fields(heads[k])[6]]

\* The table names of the DROP TABLE statements of text, in order.
DroppedTables(text) ==
    LET drops == SelectSeq(StatementLines(text),
                           LAMBDA l : HasPrefix(l, "DROP TABLE IF EXISTS "))
    IN [k \in 1..Len(drops) |-> TrimSuffix(Fields(drops[k])[5], ";")]

\* The name a statement of the migration gives to table i.
MigratedName(i) ==
    (IF moduleName = "wearable-service" THEN "wearable." ELSE "") \o tables[i].Name

\* C8: the forward binding lists one CREATE TABLE statement per parsed table
\* in source order, the backward binding one DROP TABLE statement per table in
\* exactly the reverse order.
C8_CreateInOrderDropReversed ==
    pc = "mig:done" =>
        LET n == Len(tables)
        IN /\ CreatedTables(migVars.table_creations) = [k \in 1..n |-> MigratedName(k)]
           /\ DroppedTables(migVars.table_drops) = [k \in 1..n |-> MigratedName(n + 1 - k)]

\* C8 happens: accounts then sessions were parsed and the migration built.
C8_Witness ==
    /\ pc = "mig:done"
    /\ Len(tables) = 2
    /\ tables[1].Name = "accounts"
    /\ tables[2].Name = "sessions"

\* A parsed column that is not a primary key and whose lower-cased name
\* contains "_id".
ForeignKeyLike(col) == ~col.IsPrimaryKey /\ Contains(ToLower(col.Name), "_id")

\* The CREATE INDEX statements of the forward migration on column colName of
\* the table named tableName.
IndexStatementsOn(tableName, colName) ==
    SelectSeq(StatementLines(migVars.index_creations),
              LAMBDA l : /\ HasPrefix(l, "CREATE INDEX ")
                         /\ HasSuffix(l, " ON " \o tableName \o "(" \o colName \o ");"))

\* The target "table(column);" of each CREATE INDEX statement of the forward
\* migration whose column name contains "_id" in any letter case, in order.
ForeignKeyIndexTargets ==
    LET stmts == SelectSeq(StatementLines(migVars.index_creations),
                           LAMBDA l : HasPrefix(l, "CREATE INDEX "))
        target(l) == Fields(l)[Len(Fields(l))]
        targets == [k \in 1..Len(stmts) |-> target(stmts[k])]
    IN SelectSeq(targets, LAMBDA t : Contains(ToLower(Split(t, "(")[2]), "_id"))

\* The target expected for each parsed foreign-key-like column, in source order.
ForeignKeyColumnTargets ==
    Flatten([i \in 1..Len(tables) |->
        LET fk == SelectSeq(tables[i].Columns, ForeignKeyLike)
        IN [k \in 1..Len(fk) |-> MigratedName(i) \o "(" \o fk[k].Name \o ");"]])

\* C9: the forward migration contains exactly one CREATE INDEX statement for
\* every parsed column that is not a primary key and whose lower-cased name
\* contains "_id": the statements on such columns are, one for one and in
\* source order, the parsed columns of that kind, each on its column of its
\* table.
C9_OneIndexPerForeignKeyColumn ==
    pc = "mig:done" => ForeignKeyIndexTargets = ForeignKeyColumnTargets

\* C9 happens: sessions declares account_id, not a primary key, and the
\* forward migration holds one CREATE INDEX statement on it.
C9_Witness ==
    /\ pc = "mig:done"
    /\ \E i \in 1..Len(tables) : \E j \in 1..Len(tables[i].Columns) :
          /\ tables[i].Name = "sessions"
          /\ tables[i].Columns[j].Name = "account_id"
          /\ ForeignKeyLike(tables[i].Columns[j])
          /\ Len(IndexStatementsOn(MigratedName(i), "account_id")) = 1

-----------------------------------------------------------------------------
(***************************************************************************)
(* Properties of the whole run.                                            *)
(***************************************************************************)

\* C1: when parsing yields zero tables, createHexagonalArchitecture returns
\* the "No tables found" error before createDirectoryStructure,
\* generateAllFiles or any file write runs: the run never gets past the
\* validation, and no directory and no file of the output tree ever exists.
C1_NoTablesNothingCreated ==
    (pc # "start" /\ tables = <<>>) =>
        /\ pc \in {"parsed", "done"}
        /\ fsDirs = {} /\ fsFiles = <<>>
        /\ toolsRun = <<>>
        /\ pc = "done" => result \in {ErrNoTables, ErrParse}

\* C1 happens: a file holding a table block that is never closed was read,
\* it yielded no table, and the run has ended with the error.
C1_Witness ==
    /\ pc = "done"
    /\ sqlLines = <<"CREATE TABLE users (", "    name VARCHAR(255) NOT NULL">>
    /\ tables = <<>>
    /\ result = ErrNoTables

\* The first word of each non-empty line of a generated text.
FirstWords(text) ==
    LET lines == SelectSeq(StatementLines(text), LAMBDA l : Fields(l) # <<>>)
    IN [k \in 1..Len(lines) |-> Fields(lines[k])[1]]

\* C2: end to end, for the table users with the column lines id (inline
\* PRIMARY KEY), name (NOT NULL), email (NOT NULL, inline UNIQUE) and
\* created_at (DEFAULT), a run that succeeds leaves: the domain model User
\* with the embedded base entity and the fields Name and Email; the DTO with
\* exactly ID, Name and Email; the forward CREATE TABLE users with the
\* identity primary key, name, email and the four other Meta Contract columns
\* in that order; the backward script dropping users.
C2_UsersEndToEnd ==
    (pc = "done" /\ result = "ok" /\ sqlLines = UsersSchema) =>
        LET model == fsFiles[PathJoin(<<moduleName, "internal", "domain", "model", "users.go">>)]
            dto == fsFiles[PathJoin(<<moduleName, "internal", "application", "dto", "user.go">>)]
            created == StatementLines(migVars.table_creations)
        IN /\ model.vars.struct_name = "User"
           /\ FirstWords(model.vars.fields) = <<"MetaField", "Name", "Email">>
           /\ FirstWords(dto.vars.fields) = <<"ID", "Name", "Email">>
           /\ CreatedTables(migVars.table_creations) = <<MigratedName(1)>>
           /\ FirstWords(Join(SubSeq(created, 2, Len(created) - 1), "\n"))
                = <<"id", "name", "email", "created_at", "updated_at", "deleted_at", "is_deleted">>
           /\ Contains(created[2], "PRIMARY KEY")
           /\ DroppedTables(migVars.table_drops) = <<MigratedName(1)>>

\* The keys that occur as placeholders in the template texts.
PlaceholderKeys == TemplateKeys \cup {"struct_name"}

\* The text rendered piece by piece: the placeholders of the keys in absent
\* are copied as they stand, the text between them is rendered on its own
\* with the keys visited in this order.
RECURSIVE RenderAround(_, _, _, _, _)
RenderAround(text, piece, variables, order, absent) ==
    LET here == {k \in absent : HasPrefix(text, "<" \o k \o ">")}
        key == CHOOSE k \in here : TRUE
    IN IF text = "" THEN ReplaceInOrder(piece, variables, order)
       ELSE IF here # {}
       THEN ReplaceInOrder(piece, variables, order) \o "<" \o key \o ">"
            \o RenderAround(SubSeq(text, Len(key) + 3, Len(text)), "", variables, order, absent)
       ELSE RenderAround(SubSeq(text, 2, Len(text)), piece \o SubSeq(text, 1, 1),
                         variables, order, absent)

\* C11: every placeholder <k> of the template whose key k is absent from the
\* bindings is left verbatim in the rendered output, at its place between the
\* rendered texts that surround it, and the loop ends with a result whatever
\* placeholders are unbound.
C11_UnboundPlaceholdersStay ==
    pc = "tpl:done" =>
        \E order \in KeyOrders(bindings) :
            rendered = RenderAround(tpl, "", bindings, order, PlaceholderKeys \ DOMAIN bindings)

\* C11 happens: <struct_name> is unbound, <fields> is bound, and the output
\* holds the placeholder verbatim before the value of fields.
C11_Witness ==
    /\ pc = "tpl:done"
    /\ tpl = "<struct_name><fields>"
    /\ DOMAIN bindings = {"fields"}
    /\ bindings["fields"] = "users"
    /\ rendered = "<struct_name>users"

\* The elements of a sequence.
Range(seq) == {seq[k] : k \in 1..Len(seq)}

\* The tools formatGeneratedFiles and initializeGoModule invoke.
FormatTools == {"goimports -w", "gofmt -w"}
ModuleTools == {"go mod tidy", "go build", "go vet", "goimports -l", "gofmt -l", "golint",
                "go install golang.org/x/lint/golint@latest"}

\* The paths of the files the steps of generateAllFiles before the migration
\* write.
ArtifactPaths(module, tbls) ==
    LET files == BaseFiles(module, tbls) \o DomainModelFiles(module, tbls)
                 \o ApplicationInterfacesFiles(module, tbls)
                 \o ApplicationServiceFiles(module, tbls) \o DTOFiles(module, tbls)
                 \o InteractorInterfacesFiles(module, tbls)
                 \o InteractorAdapterFiles(module, tbls) \o RepositoryFiles(module, tbls)
                 \o RestFiles(module, tbls)
    IN {files[k][1] : k \in 1..Len(files)}

C13_LintIsAGate ==
    (pc = "done" /\ lintResult = "error") => result # "ok"

\* C14: the REST routes of a table are "/<tablename>" and "/<tablename>/:id",
\* the table name as it stands in the schema, and the collection path is
\* the path the main program logs for the table.
C14_RestPathIsTableName ==
    pc = "name:routes" =>
        /\ names.collection = "/" \o ident
        /\ names.item = "/" \o ident \o "/:id"
        /\ names.collection = names.logged

\* The steps of generateAllFiles, in their fixed order.
GenerationSteps ==
    <<"base", "models", "appif", "services", "dtos", "intif", "adapters", "repos", "rest",
      "migration">>

\* The paths of a sequence of <<path, content>>.
Paths(files) == {files[k][1] : k \in 1..Len(files)}

\* The paths the step at position p of generateAllFiles writes.
StepPaths(p, module, tbls) ==
    CASE p = "base" -> Paths(BaseFiles(module, tbls))
      [] p = "models" -> Paths(DomainModelFiles(module, tbls))
      [] p = "appif" -> Paths(ApplicationInterfacesFiles(module, tbls))
      [] p = "services" -> Paths(ApplicationServiceFiles(module, tbls))
      [] p = "dtos" -> Paths(DTOFiles(module, tbls))
      [] p = "intif" -> Paths(InteractorInterfacesFiles(module, tbls))
      [] p = "adapters" -> Paths(InteractorAdapterFiles(module, tbls))
      [] p = "repos" -> Paths(RepositoryFiles(module, tbls))
      [] p = "rest" -> Paths(RestFiles(module, tbls))
      [] p = "migration" ->
            UNION {Paths(MigrationFiles(module, tbls, timestamp)) : timestamp \in TimestampInputs}

\* A step of generateAllFiles failed: writeFile or processTemplate returned
\* an error, or a generator panicked on a template that did not load.
GenerationFailed(r) == r \in {ErrGenerate, "panic"}

\* C15: when a step of generateAllFiles fails on a template or on a write,
\* the run ends there: the failing step has written files of its own only,
\* no tool has been invoked, the result is not success, and a run that has
\* ended takes no further step, so that no later step writes anything.
C15_FailureAbortsRun ==
    [][/\ pc # "done"
       /\ (pc \in Range(GenerationSteps) /\ GenerationFailed(result')) =>
              /\ pc' = "done"
              /\ result' # "ok"
              /\ toolsRun' = <<>>
              /\ DOMAIN fsFiles' \ DOMAIN fsFiles \subseteq StepPaths(pc, moduleName, tables)
       /\ (~GenerationFailed(result) /\ GenerationFailed(result')) => pc \in Range(GenerationSteps)
      ]_vars

\* C15 happens: writeFile failed in a step after the domain models were
\* written; the run has ended with the error, without any REST file, any
\* migration file or any tool.
C15_Witness ==
    /\ pc = "done"
    /\ result = ErrGenerate
    /\ StepPaths("models", moduleName, tables) \subseteq DOMAIN fsFiles
    /\ StepPaths("rest", moduleName, tables) \cap DOMAIN fsFiles = {}
    /\ StepPaths("migration", moduleName, tables) \cap DOMAIN fsFiles = {}
    /\ toolsRun = <<>>

\* The name of a source type: the type without its size or precision
\* qualifier, in upper case.
TypeName(sqlType) ==
    LET paren == IndexFrom(sqlType, "(", 1)
    IN ToUpper(IF paren = 0 THEN sqlType ELSE SubSeq(sqlType, 1, paren - 1))

\* The source types of the date/time family.
DateTimeFamily == {"TIMESTAMP", "TIMESTAMPTZ", "DATETIME", "DATE"}

\* C16: a column whose source type is of the date/time family, with or
\* without a precision qualifier, has the target type time.Time.
C16_DateTimeFamilyIsTime ==
    pc = "col:done" =>
        \A k \in 1..Len(colResult) :
            TypeName(colResult[k].Type) \in DateTimeFamily => colResult[k].GoType = "time.Time"

\* The base types the switch of generateGoFieldInfo has a case for.
RecognizedBaseTypes ==
    {"INT", "INTEGER", "SERIAL", "BIGSERIAL", "BIGINT", "VARCHAR", "TEXT", "CHAR", "JSONB",
     "JSON", "BOOLEAN", "BOOL", "TIMESTAMP", "DATETIME", "DATE", "DECIMAL", "NUMERIC", "FLOAT",
     "REAL", "DOUBLE", "UUID"}

\* The leading run of letters of a source type, in upper case.
RECURSIVE LeadingLetters(_)
LeadingLetters(sqlType) ==
    IF sqlType = "" \/ ~InClass(SubSeq(ToUpper(sqlType), 1, 1), "upper") THEN ""
    ELSE SubSeq(ToUpper(sqlType), 1, 1) \o LeadingLetters(SubSeq(sqlType, 2, Len(sqlType)))

\* The target types of the switch of generateGoFieldInfo.
TargetTypes == {"int64", "string", "[]string", "bool", "time.Time", "float64"}

\* C19: for every column the parser hands over, whatever its source type,
\* generateGoFieldInfo sets a target type, and the target type is string
\* when the leading run of letters of the source type is not a recognized
\* base type.
C19_ForwardMappingIsTotal ==
    pc = "col:done" =>
        \A k \in 1..Len(colResult) :
            /\ colResult[k].GoType \in TargetTypes
            /\ LeadingLetters(colResult[k].Type) \notin RecognizedBaseTypes =>
                   colResult[k].GoType = "string"

\* C19 happens: source types the switch does not know, one of them without
\* any leading letter, have been given the target type string.
C19_Witness ==
    /\ pc = "col:done"
    /\ colLine \in {"seen_at GEOMETRY,", "seen_at (255)"}
    /\ Len(colResult) = 1
    /\ colResult[1].GoType = "string"

\* The serialization tag of a column name in its source case, with the
\* omitempty marker.
SourceCaseTag(colName) == "json:\"" \o colName \o ",omitempty\""

\* C17: a column that generateDomainModel and generateDTO both emit as a
\* field has, in the fields of each, the serialization tag of its name in
\* source case with the omitempty marker.
C17_JSONTagIsSourceCaseEverywhere ==
    pc = "col:emitted" =>
        \A k \in 1..Len(colResult) :
            LET colName == colResult[k].column.Name
            IN (~DomainSkipsField(colName) /\ ~DTOIsMeta(colName)) =>
                   /\ colResult[k].column.JSONTag = SourceCaseTag(colName)
                   /\ Contains(colResult[k].domain, SourceCaseTag(colName))
                   /\ Contains(colResult[k].dto, SourceCaseTag(colName))

\* C18: once parseSQLSchema has returned, the table sequence is the one it
\* returned and no step changes it: not the validation, the directory
\* creation, any step of generateAllFiles, the migration or the tools.
C18_TablesAreReadOnly ==
    /\ [](pc \in Range(GenerationSteps) \cup {"parsed", "mkdirs", "format", "initmod"} =>
             tables = parseSQLSchema(sqlLines))
    /\ [][pc # "start" => tables' = tables]_vars

\* C18 happens: a run over two tables has gone through every step, the
\* migration included, and the tables are those the parser returned.
C18_Witness ==
    /\ pc = "done"
    /\ result = "ok"
    /\ migVars # NoVars
    /\ Len(tables) > 1
    /\ tables = parseSQLSchema(sqlLines)

\* The segment of s that starts at position i: the characters up to the
\* next underscore or the end of s.
SegmentAt(s, i) ==
    LET next == IndexFrom(s, "_", i)
    IN SubSeq(s, i, IF next = 0 THEN Len(s) ELSE next - 1)

\* The target-case form of s from position i on, read character by
\* character: an underscore is dropped and starts a segment; a segment that
\* is "id" in any letter case gives "ID"; of any other segment the first
\* character is upper-cased and the others are lower-cased.
RECURSIVE TargetCaseFrom(_, _, _)
TargetCaseFrom(s, i, atStart) ==
    IF i > Len(s) THEN ""
    ELSE IF SubSeq(s, i, i) = "_" THEN TargetCaseFrom(s, i + 1, TRUE)
    ELSE IF atStart /\ ToLower(SegmentAt(s, i)) = "id" THEN "ID" \o TargetCaseFrom(s, i + 2, FALSE)
    ELSE IF atStart THEN ToUpper(SubSeq(s, i, i)) \o TargetCaseFrom(s, i + 1, FALSE)
    ELSE ToLower(SubSeq(s, i, i)) \o TargetCaseFrom(s, i + 1, FALSE)

\* C20: in the result of toCamelCase every underscore-delimited segment that
\* is "id" in any letter case stands as "ID" at its position, and every other
\* non-empty segment stands lower-cased with its first letter upper-cased.
C20_IdSegmentsBecomeID ==
    pc = "name:camel" => names.camel = TargetCaseFrom(ident, 1, TRUE)

\* C20 happens: an identifier with an upper-case id segment after another
\* segment has been converted.
C20_Witness ==
    /\ pc = "name:camel"
    /\ ident = "USER_ID"
    /\ names.camel = "UserID"

\* The lines the scanner does not skip: neither blank nor a comment.
ScannedLines(lines) ==
    SelectSeq(lines, LAMBDA l : ~(\/ HasPrefix(TrimSpace(l), "--")
                                  \/ HasPrefix(TrimSpace(l), "/*")
                                  \/ TrimSpace(l) = ""))

IsCreateTableLine(l) == CreateTableName(TrimSpace(l)) # ""

IsClosingLine(l) == ~IsCreateTableLine(l) /\ Contains(l, ");")

\* The position of the first CREATE TABLE line or closing line after
\* position i, Len(lines) + 1 when there is none.
BlockEnd(lines, i) ==
    LET ends == {j \in (i + 1)..Len(lines) : IsCreateTableLine(lines[j]) \/ IsClosingLine(lines[j])}
    IN IF ends = {} THEN Len(lines) + 1 ELSE CHOOSE j \in ends : \A k \in ends : j <= k

\* The columns of the lines at positions from..to, in order.
RECURSIVE ColumnsOf(_, _, _)
ColumnsOf(lines, from, to) ==
    IF from > to THEN <<>>
    ELSE LET column == parseColumnDefinition(TrimSpace(lines[from]))
         IN [k \in 1..Len(column) |-> generateGoFieldInfo(column[k])]
            \o ColumnsOf(lines, from + 1, to)

\* The tables of the CREATE TABLE lines at positions i and later whose
\* block ends with a closing line, each with the columns of its block.
RECURSIVE ClosedBlocks(_, _)
ClosedBlocks(lines, i) ==
    IF i > Len(lines) THEN <<>>
    ELSE LET end == BlockEnd(lines, i)
         IN (IF /\ IsCreateTableLine(lines[i])
                /\ end <= Len(lines)
                /\ IsClosingLine(lines[end])
             THEN <<Table(CreateTableName(TrimSpace(lines[i])), ColumnsOf(lines, i + 1, end - 1))>>
             ELSE <<>>)
            \o ClosedBlocks(lines, i + 1)

\* C21: of the lines that are neither blank nor comments, the parser returns
\* in source order one table for each CREATE TABLE line that is followed by
\* a closing line before the next CREATE TABLE line or the end of input, with
\* the columns of the lines between the two in source order; lines outside
\* such a block give no table and no column.
C21_TablesAreClosedBlocks ==
    pc = "parse:done" => tables = ClosedBlocks(ScannedLines(sqlLines), 1)

\* C21 happens: a table that is never closed is followed by a table with a
\* column and a closing line; only the second is returned.
C21_Witness ==
    /\ pc = "parse:done"
    /\ sqlLines = <<"CREATE TABLE accounts (", "create table sessions(", "    name TEXT,", ");">>
    /\ Len(tables) = 1
    /\ tables[1].Name = "sessions"
    /\ Len(tables[1].Columns) = 1

\* The names of the columns the forward migration creates for a table, in
\* lower case: the first words of the lines between the CREATE TABLE line
\* and the closing line.
MigratedColumns(table, schema) ==
    LET created == StatementLines(generateCreateTable(table, schema))
        words == FirstWords(Join(SubSeq(created, 2, Len(created) - 1), "\n"))
    IN [k \in 1..Len(words) |-> ToLower(words[k])]

\* The first words of the fields the domain model of table number i has on
\* disk: MetaField for the embedded base entity, else a field name.
ModelFieldNames(i) ==
    FirstWords(fsFiles[DomainModelFiles(moduleName, tables)[i][1]].vars.fields)

\* C22: once a run has written the domain models and the migration, every
\* Meta Contract column the migration creates for a table is in the table's
\* domain model, as a field of that name or through the embedded MetaField.
C22_MigratedMetaColumnsInModel ==
    (pc = "done" /\ result = "ok") =>
        \A i \in 1..Len(tables) :
            /\ Contains(migVars.table_creations,
                        generateCreateTable(tables[i], SchemaOf(moduleName)))
            /\ \A m \in MetaContractNames \cap Range(MigratedColumns(tables[i], SchemaOf(moduleName))) :
                   \/ toCamelCase(m) \in Range(ModelFieldNames(i))
                   \/ "MetaField" \in Range(ModelFieldNames(i))

\* The column entries of each CREATE TABLE statement of text, in order: the
\* lines between its CREATE TABLE line and its closing line.
RECURSIVE EntryBlocks(_, _)
EntryBlocks(lines, current) ==
    IF lines = <<>> THEN <<>>
    ELSE IF Head(lines) = ");" THEN <<current>> \o EntryBlocks(Tail(lines), <<>>)
    ELSE IF HasPrefix(Head(lines), "CREATE TABLE IF NOT EXISTS ")
    THEN EntryBlocks(Tail(lines), <<>>)
    ELSE EntryBlocks(Tail(lines), Append(current, Head(lines)))

\* The column names of a sequence of entries, in lower case.
EntryNames(entries) == [k \in 1..Len(entries) |-> ToLower(Fields(entries[k])[1])]

\* The names of the declared columns of a table, in lower case.
DeclaredNames(table) == [j \in 1..Len(table.Columns) |-> ToLower(table.Columns[j].Name)]

\* No two elements of the sequence are equal.
Distinct(seq) == \A a, b \in 1..Len(seq) : seq[a] = seq[b] => a = b

\* C23: for a table whose column names are distinct case-insensitively, the
\* CREATE TABLE statement lists, in this order: id when it is not declared,
\* the declared columns in source order, and those of created_at, updated_at,
\* deleted_at, is_deleted that are not declared; so each Meta Contract column
\* is listed exactly once.
C23_MetaColumnsOnceInFixedPlace ==
    pc = "mig:done" =>
        LET blocks == EntryBlocks(StatementLines(migVars.table_creations), <<>>)
        IN /\ Len(blocks) = Len(tables)
           /\ \A i \in 1..Len(tables) :
                  LET declared == DeclaredNames(tables[i])
                      missing(m) == m \notin Range(declared)
                      listed == EntryNames(blocks[i])
                  IN Distinct(declared) =>
                        /\ listed = (IF missing("id") THEN <<"id">> ELSE <<>>)
                                    \o declared
                                    \o SelectSeq(<<"created_at", "updated_at", "deleted_at",
                                                   "is_deleted">>, missing)
                        /\ \A m \in MetaContractNames :
                               Cardinality({k \in 1..Len(listed) : listed[k] = m}) = 1

\* C23 happens: a table declares Created_At and name, in that order, and the
\* migration adds id before them and updated_at, deleted_at and is_deleted
\* after them.
C23_Witness ==
    /\ pc = "mig:done"
    /\ Len(tables) = 1
    /\ DeclaredNames(tables[1]) = <<"created_at", "name">>
    /\ EntryNames(EntryBlocks(StatementLines(migVars.table_creations), <<>>)[1])
         = <<"id", "created_at", "name", "updated_at", "deleted_at", "is_deleted">>

\* C27: in every CREATE TABLE statement of the migration, whatever Meta
\* Contract columns the table declares, every entry but the last ends with
\* a comma and the last entry, the one before the closing line, does not.
C27_ColumnListCommas ==
    pc = "mig:done" =>
        LET blocks == EntryBlocks(StatementLines(migVars.table_creations), <<>>)
        IN \A i \in 1..Len(blocks) :
              /\ Len(blocks[i]) > 0
              /\ \A k \in 1..(Len(blocks[i]) - 1) : HasSuffix(blocks[i][k], ",")
              /\ ~HasSuffix(blocks[i][Len(blocks[i])], ",")

\* The index names of the CREATE INDEX statements of text, in order.
CreatedIndexNames(text) ==
    LET stmts == SelectSeq(StatementLines(text),
                           LAMBDA l : HasPrefix(l, "CREATE INDEX IF NOT EXISTS "))
    IN [k \in 1..Len(stmts) |-> Fields(stmts[k])[6]]

\* The index names of the DROP INDEX statements of text, in order.
DroppedIndexNames(text) ==
    LET stmts == SelectSeq(StatementLines(text),
                           LAMBDA l : HasPrefix(l, "DROP INDEX IF EXISTS "))
    IN [k \in 1..Len(stmts) |-> TrimSuffix(Fields(stmts[k])[5], ";")]

\* C26: the backward script drops the indexes the forward script creates:
\* every line of the two bindings is an index statement, and the index
\* names of the DROP INDEX statements are, in order, those of the CREATE
\* INDEX statements.
C26_DropsTheIndexesCreated ==
    pc = "mig:done" =>
        /\ Len(CreatedIndexNames(migVars.index_creations))
             = Len(StatementLines(migVars.index_creations))
        /\ Len(DroppedIndexNames(migVars.index_drops)) = Len(StatementLines(migVars.index_drops))
        /\ DroppedIndexNames(migVars.index_drops) = CreatedIndexNames(migVars.index_creations)

\* C26 happens: under the schema prefix, the indexes of two tables, on a
\* column written in mixed case and on key_time, are created and dropped.
C26_Witness ==
    /\ pc = "mig:done"
    /\ DroppedIndexNames(migVars.index_drops)
         = <<"wearable.idx_accounts_Account_ID", "wearable.idx_accounts_key_time",
             "wearable.idx_sessions_Account_ID", "wearable.idx_sessions_key_time">>
    /\ CreatedIndexNames(migVars.index_creations) = DroppedIndexNames(migVars.index_drops)

\* The text between marker and the next double quote of line.
QuotedAfter(line, marker) ==
    LET from == IndexFrom(line, marker, 1) + Len(marker)
    IN SubSeq(line, from, IndexFrom(line, "\"", from) - 1)

\* The DBKey of each entry of a filter or sorting binding, in order.
DBKeys(text) ==
    LET entries == StatementLines(text)
    IN [k \in 1..Len(entries) |-> QuotedAfter(entries[k], "DBKey: \"")]

\* The names of the declared columns of a table that are not Meta Contract
\* columns, compared case-insensitively, in source order.
OwnColumnNames(table) ==
    LET own == SelectSeq(table.Columns, LAMBDA col : ToLower(col.Name) \notin MetaContractNames)
    IN [k \in 1..Len(own) |-> own[k].Name]

\* C24: for every table the DTO fields and the filter and sorting entries
\* of the query parameters are a leading id entry followed by one entry for
\* each declared column that is not a Meta Contract column, in source order.
C24_DTOAndParametersSameColumns ==
    pc = "mig:entries" =>
        \A i \in 1..Len(tables) :
            LET own == OwnColumnNames(tables[i])
            IN /\ FirstWords(migVars.dto_fields[i])
                    = <<"ID">> \o [k \in 1..Len(own) |-> toCamelCase(own[k])]
               /\ DBKeys(migVars.filter_fields[i]) = <<"id">> \o own
               /\ DBKeys(migVars.sorting_fields[i]) = <<"id">> \o own

\* C24 happens: a table declares Created_At and IS_DELETED in letter cases of
\* its own between its other columns, and neither generator has an entry
\* for them.
C24_Witness ==
    /\ pc = "mig:entries"
    /\ Len(tables) = 1
    /\ DeclaredNames(tables[1]) = <<"name", "created_at", "user_id", "is_deleted">>
    /\ FirstWords(migVars.dto_fields[1]) = <<"ID", "Name", "UserID">>
    /\ DBKeys(migVars.filter_fields[1]) = <<"id", "name", "user_id">>

\* Some field of the fields binding has the target type time.Time: the
\* second word of a field line is its type.
EmitsTimeField(fields) ==
    \E k \in 1..Len(StatementLines(fields)) :
        LET words == Fields(StatementLines(fields)[k])
        IN Len(words) >= 2 /\ words[2] = "time.Time"

\* C25: the import binding of the domain model and that of the DTO name
\* the time package exactly when a field emitted into the same file has
\* the target type time.Time.
C25_TimeImportedIffUsed ==
    pc = "mig:entries" =>
        \A i \in 1..Len(tables) :
            /\ Contains(migVars.model_import[i], "\"time\"") <=> EmitsTimeField(migVars.model_fields[i])
            /\ Contains(migVars.dto_import[i], "\"time\"") <=> EmitsTimeField(migVars.dto_fields[i])

\* The line has a DEFAULT clause: after the column name and the type, the
\* word DEFAULT (any letter case) followed by a token.
HasDefaultClause(line) ==
    LET parts == Fields(TrimSuffix(TrimSpace(line), ","))
    IN \E k \in 3..(Len(parts) - 1) : ToUpper(parts[k]) = "DEFAULT"

\* C28: a column parsed from a line without DEFAULT clause has the empty
\* default value; the default value is non-empty only for a line that has
\* the word DEFAULT and a token after the type.
C28_DefaultOnlyFromDefaultClause ==
    pc = "col:parsed" =>
        \A k \in 1..Len(colResult) :
            colResult[k].DefaultValue # "" => HasDefaultClause(colLine)

\* Table names of the parsed schema are pairwise distinct.
DistinctTableNames ==
    \A i, j \in 1..Len(tables) : tables[i].Name = tables[j].Name => i = j

\* C29: in a run over tables with pairwise distinct names no path is written
\* when a file already exists at it: no artifact of a table replaces the
\* artifact of another table or a base file.
C29_NoPathWrittenTwice ==
    DistinctTableNames => rewrites = {}

\* The two blocking checks of runLintChecks: go vet and the formatting and
\* import check (goimports -l, or gofmt -l as its fallback).
BlockingChecks == {"go vet", "goimports -l", "gofmt -l"}

\* C30: runLintChecks returns an error in every run where go vet or the
\* formatting and import check reported issues, whatever golint did after
\* them, and returns nil only when neither of the two reported issues.
C30_LintErrorIffIssues ==
    (pc = "done" /\ lintResult # "none") =>
        (lintResult = "error" <=> lintIssues \cap BlockingChecks # {})

=============================================================================
